---------------------------- MODULE Spec2Model ----------------------------
(***************************************************************************)
(* A model of the OCPP 1.6 minimal charge point (src/ocpp16_min/client.py) *)
(* and central system (src/ocpp16_min/server.py) with the frame helpers of *)
(* src/ocpp16_min/common.py.                                               *)
(*                                                                         *)
(* JSON values are tagged pairs <<tag, value>>, so that values of          *)
(* different Python types can be told apart and compared:                  *)
(*   <<"int", n>>  <<"bool", b>>  <<"str", s>>  <<"null", 0>>              *)
(*   <<"list", sequence of JSON values>>                                   *)
(*   <<"obj", function from key strings to JSON values>>                   *)
(* A text on the wire is <<"json", v>> (what json.dumps(v) produces, and   *)
(* json.loads gives v back) or <<"raw", s>> (a text that is not JSON).     *)
(***************************************************************************)
EXTENDS Integers, Sequences, FiniteSets, TLC

\* ------------------------------------------------------------ JSON values

JInt(n) == <<"int", n>>
JBool(b) == <<"bool", b>>
JStr(s) == <<"str", s>>
JList(q) == <<"list", q>>
JObj(f) == <<"obj", f>>
None == <<"null", 0>>
EmptyObj == JObj([k \in {} |-> None])

Tag(x) == x[1]
Val(x) == x[2]

\* isinstance(x, list) / isinstance(x, dict) / isinstance(x, str)
IsList(x) == Tag(x) = "list"
IsDict(x) == Tag(x) = "obj"
IsStr(x) == Tag(x) = "str"
\* isinstance(x, int): Python's bool is a subclass of int
IsInt(x) == Tag(x) \in {"int", "bool"}
\* the integer a Python int or bool stands for (True == 1, False == 0)
IntOf(x) == IF Tag(x) = "bool" THEN (IF Val(x) THEN 1 ELSE 0) ELSE Val(x)
\* x == n for an integer literal n
PyEqInt(x, n) == IsInt(x) /\ IntOf(x) = n
\* x == s for a string literal s
PyEqStr(x, s) == IsStr(x) /\ Val(x) = s
\* bool(x) of a string: non-empty
NonEmptyStr(x) == IsStr(x) /\ Val(x) # ""
\* d.get(key) and d.get(key, default) of a dict d
Get(d, key) == IF key \in DOMAIN Val(d) THEN Val(d)[key] ELSE None
GetOr(d, key, default) == IF key \in DOMAIN Val(d) THEN Val(d)[key] ELSE default

\* json.dumps(v)
json_dumps(v) == <<"json", v>>
\* a text that json.loads rejects
RawText(s) == <<"raw", s>>

\* ---------------------------------------------- src/ocpp16_min/common.py

BOOTING == "BOOTING"
AVAILABLE == "AVAILABLE"

\* a Call frame with uid and action in each other's place
make_call_swapped(uid, action, payload) == JList(<<JInt(2), JStr(action), uid, payload>>)

make_call(uid, action, payload) == JList(<<JInt(2), uid, JStr(action), payload>>)

\* a result frame under a uid of its own
make_call_result_own_uid(uid, payload) == JList(<<JInt(3), JStr("0"), payload>>)

make_call_result(uid, payload) == JList(<<JInt(3), uid, payload>>)

\* uuid4().hex: the n-th identifier drawn; every draw is fresh
new_uid(n) == JStr(ToString(n))

is_call_result(msg) ==
    /\ IsList(msg)
    /\ Len(Val(msg)) >= 3
    /\ PyEqInt(Val(msg)[1], 3)

\* [ok |-> FALSE, reason] standing for the ValueError raised
Raise(reason) == [ok |-> FALSE, reason |-> reason]

\* validate_call with the uid checked before the message type
validate_call_uid_first(msg) ==
    IF ~IsList(msg) THEN Raise("frame must be a JSON list")
    ELSE IF Len(Val(msg)) # 4 THEN Raise("CALL frame must have length 4")
    ELSE IF ~NonEmptyStr(Val(msg)[2]) THEN Raise("CALL uid must be a non-empty string")
    ELSE IF ~PyEqInt(Val(msg)[1], 2) THEN Raise("MessageTypeId must be 2 (CALL)")
    ELSE IF ~NonEmptyStr(Val(msg)[3]) THEN Raise("CALL action must be a non-empty string")
    ELSE IF ~IsDict(Val(msg)[4]) THEN Raise("CALL payload must be an object")
    ELSE [ok |-> TRUE, uid |-> Val(msg)[2], action |-> Val(Val(msg)[3]),
          payload |-> Val(msg)[4]]

\* validate_call: [ok |-> TRUE, uid, action, payload], or the ValueError raised
validate_call(msg) ==
    IF ~IsList(msg) THEN Raise("frame must be a JSON list")
    ELSE IF Len(Val(msg)) # 4 THEN Raise("CALL frame must have length 4")
    ELSE IF ~PyEqInt(Val(msg)[1], 2) THEN Raise("MessageTypeId must be 2 (CALL)")
    ELSE IF ~NonEmptyStr(Val(msg)[2]) THEN Raise("CALL uid must be a non-empty string")
    ELSE IF ~NonEmptyStr(Val(msg)[3]) THEN Raise("CALL action must be a non-empty string")
    ELSE IF ~IsDict(Val(msg)[4]) THEN Raise("CALL payload must be an object")
    ELSE [ok |-> TRUE, uid |-> Val(msg)[2], action |-> Val(Val(msg)[3]),
          payload |-> Val(msg)[4]]

\* datetime.now(timezone.utc) rendered with second precision and a Z suffix
utc_now_iso_z == "2026-01-01T00:00:00Z"

make_heartbeat_call(uid) == make_call(uid, "Heartbeat", EmptyObj)

make_status_notification_call(uid, connector_id, status, error_code) ==
    make_call(uid, "StatusNotification",
              JObj([connectorId |-> JInt(connector_id), status |-> JStr(status),
                    errorCode |-> JStr(error_code),
                    timestamp |-> JStr(utc_now_iso_z)]))

make_start_transaction_call(uid, connector_id, id_tag, meter_start) ==
    make_call(uid, "StartTransaction",
              JObj([connectorId |-> JInt(connector_id), idTag |-> JStr(id_tag),
                    meterStart |-> JInt(meter_start),
                    timestamp |-> JStr(utc_now_iso_z)]))

\* a StopTransaction Call that names the default transaction_id of the function
make_stop_transaction_call_default_id(uid, transaction_id, id_tag, meter_stop, reason) ==
    make_call(uid, "StopTransaction",
              JObj([transactionId |-> JInt(0), meterStop |-> JInt(meter_stop),
                    timestamp |-> JStr(utc_now_iso_z), idTag |-> JStr(id_tag),
                    reason |-> JStr(reason)]))

make_stop_transaction_call(uid, transaction_id, id_tag, meter_stop, reason) ==
    make_call(uid, "StopTransaction",
              JObj([transactionId |-> transaction_id, meterStop |-> JInt(meter_stop),
                    timestamp |-> JStr(utc_now_iso_z), idTag |-> JStr(id_tag),
                    reason |-> JStr(reason)]))

\* parse_message: [ok |-> TRUE, value], or [ok |-> FALSE] for JSONDecodeError
parse_message(text) ==
    IF text[1] = "json" THEN [ok |-> TRUE, value |-> text[2]]
    ELSE [ok |-> FALSE, value |-> None]

\* parse_call_result_payload for frames of exactly three elements
parse_call_result_payload_exact(msg) ==
    IF ~IsList(msg) \/ Len(Val(msg)) # 3 \/ ~PyEqInt(Val(msg)[1], 3)
    THEN Raise("CALLRESULT frame expected")
    ELSE IF ~IsDict(Val(msg)[3]) THEN Raise("CALLRESULT payload must be an object")
    ELSE [ok |-> TRUE, payload |-> Val(msg)[3]]

parse_call_result_payload(msg) ==
    IF ~IsList(msg) \/ Len(Val(msg)) < 3 \/ ~PyEqInt(Val(msg)[1], 3)
    THEN Raise("CALLRESULT frame expected")
    ELSE IF ~IsDict(Val(msg)[3]) THEN Raise("CALLRESULT payload must be an object")
    ELSE [ok |-> TRUE, payload |-> Val(msg)[3]]


\* ---------------------------------------------- src/ocpp16_min/server.py

HEARTBEAT_INTERVAL_SECONDS == 10

\* the charge point id of a connection: the path without its leading slashes,
\* "unknown" when nothing is left. A path is a sequence of "/" and name parts.
RECURSIVE lstrip_slash(_)
lstrip_slash(path) ==
    IF path # <<>> /\ Head(path) = "/" THEN lstrip_slash(Tail(path)) ELSE path

charge_point_id_of(path) ==
    IF lstrip_slash(path) = <<>> THEN "unknown" ELSE lstrip_slash(path)[1]

\* an error frame with the type of a result
_call_error_as_result(uid, code, description) ==
    JList(<<JInt(3), uid, JStr(code), JStr(description), EmptyObj>>)

_call_error(uid, code, description) ==
    JList(<<JInt(4), uid, JStr(code), JStr(description), EmptyObj>>)

NotSupportedText ==
    "Only BootNotification, Heartbeat, StatusNotification, StartTransaction, and StopTransaction are supported"

\* What handling one message decides, before any send: the text to send, whether
\* it is an error text followed by close(1002), and the counter and registry
\* after the message.
Reply(text, next, reg) == [text |-> text, close |-> FALSE, next |-> next, reg |-> reg]
\* an error text that is sent like a reply, with no close
ErrorCloseStaysOpen(reason, next, reg) ==
    [text |-> RawText("ERROR: " \o reason), close |-> FALSE, next |-> next, reg |-> reg]

ErrorClose(reason, next, reg) ==
    [text |-> RawText("ERROR: " \o reason), close |-> TRUE, next |-> next, reg |-> reg]

\* an insert under the counter's value after the increment
RegistryPutNextKey(reg, transaction_id, entry) == ((transaction_id + 1) :> entry) @@ reg

\* an insert that is lost
RegistryPutNothing(reg, transaction_id, entry) == reg

\* an insert that drops the other entries
RegistryPutAlone(reg, transaction_id, entry) == (transaction_id :> entry)

\* _active_transactions[transaction_id] = entry
RegistryPut(reg, transaction_id, entry) == (transaction_id :> entry) @@ reg
\* a removal that removes nothing
RegistryPopNothing(reg, transaction_id) == reg

\* _active_transactions.pop(transaction_id, None)
RegistryPop(reg, transaction_id) ==
    [t \in (DOMAIN reg) \ {transaction_id} |-> reg[t]]

\* a counter that is not incremented
NextTransactionIdNotIncremented(next) == next

\* transaction_id = _next_transaction_id; _next_transaction_id += 1
NextTransactionIdAfterStart(next) == next + 1

\* a boot reply that does not accept
HandleBootNotificationPending(uid, payload, next, reg) ==
    Reply(json_dumps(make_call_result(uid, JObj([status |-> JStr("Pending")]))), next, reg)

HandleBootNotification(uid, payload, next, reg) ==
    Reply(json_dumps(make_call_result(uid,
              JObj([status |-> JStr("Accepted"), currentTime |-> JStr(utc_now_iso_z),
                    interval |-> JInt(HEARTBEAT_INTERVAL_SECONDS)]))),
          next, reg)

\* a Heartbeat that uses up a transaction id
HandleHeartbeatCounting(uid, payload, next, reg) ==
    Reply(json_dumps(make_call_result(uid, JObj([currentTime |-> JStr(utc_now_iso_z)]))),
          next + 1, reg)

HandleHeartbeat(uid, payload, next, reg) ==
    Reply(json_dumps(make_call_result(uid, JObj([currentTime |-> JStr(utc_now_iso_z)]))),
          next, reg)

HandleStatusNotification(uid, payload, next, reg) ==
    IF ~(PyEqInt(Get(payload, "connectorId"), 0) \/ PyEqInt(Get(payload, "connectorId"), 1))
    THEN ErrorClose("connectorId must be 0 or 1", next, reg)
    ELSE IF ~PyEqStr(Get(payload, "status"), "Available")
    THEN ErrorClose("status must be Available", next, reg)
    ELSE IF ~PyEqStr(Get(payload, "errorCode"), "NoError")
    THEN ErrorClose("errorCode must be NoError", next, reg)
    ELSE Reply(json_dumps(make_call_result(uid, EmptyObj)), next, reg)

HandleStartTransaction(uid, payload, charge_point_id, next, reg) ==
    IF ~(PyEqInt(Get(payload, "connectorId"), 0) \/ PyEqInt(Get(payload, "connectorId"), 1))
    THEN ErrorClose("connectorId must be 0 or 1", next, reg)
    ELSE IF ~NonEmptyStr(Get(payload, "idTag"))
    THEN ErrorClose("idTag must be a non-empty string", next, reg)
    ELSE IF ~IsInt(Get(payload, "meterStart"))
    THEN ErrorClose("meterStart must be an integer", next, reg)
    ELSE IF ~NonEmptyStr(Get(payload, "timestamp"))
    THEN ErrorClose("timestamp must be a string", next, reg)
    ELSE Reply(json_dumps(make_call_result(uid,
                   JObj([transactionId |-> JInt(next),
                         idTagInfo |-> JObj([status |-> JStr("Accepted")])]))),
               NextTransactionIdAfterStart(next),
               RegistryPut(reg, next,
                           [chargePointId |-> charge_point_id,
                            connectorId |-> Get(payload, "connectorId"),
                            meterStart |-> Get(payload, "meterStart")]))

\* a StopTransaction that refuses an id the registry does not hold
HandleStopTransactionKnownOnly(uid, payload, next, reg) ==
    IF ~IsInt(Get(payload, "transactionId"))
    THEN ErrorClose("transactionId must be an integer", next, reg)
    ELSE IF ~IsInt(Get(payload, "meterStop"))
    THEN ErrorClose("meterStop must be an integer", next, reg)
    ELSE IF ~NonEmptyStr(Get(payload, "timestamp"))
    THEN ErrorClose("timestamp must be a string", next, reg)
    ELSE IF IntOf(Get(payload, "transactionId")) \notin DOMAIN reg
    THEN ErrorClose("transactionId must be an integer", next, reg)
    ELSE Reply(json_dumps(make_call_result(uid,
                   JObj([idTagInfo |-> JObj([status |-> JStr("Accepted")])]))),
               next, RegistryPop(reg, IntOf(Get(payload, "transactionId"))))

HandleStopTransaction(uid, payload, next, reg) ==
    IF ~IsInt(Get(payload, "transactionId"))
    THEN ErrorClose("transactionId must be an integer", next, reg)
    ELSE IF ~IsInt(Get(payload, "meterStop"))
    THEN ErrorClose("meterStop must be an integer", next, reg)
    ELSE IF ~NonEmptyStr(Get(payload, "timestamp"))
    THEN ErrorClose("timestamp must be a string", next, reg)
    ELSE Reply(json_dumps(make_call_result(uid,
                   JObj([idTagInfo |-> JObj([status |-> JStr("Accepted")])]))),
               next, RegistryPop(reg, IntOf(Get(payload, "transactionId"))))

\* a dispatch that lets a charge point stop its own transactions only
DispatchOwnStopOnly(uid, action, payload, charge_point_id, next, reg) ==
    IF action = "BootNotification" THEN HandleBootNotification(uid, payload, next, reg)
    ELSE IF action = "Heartbeat" THEN HandleHeartbeat(uid, payload, next, reg)
    ELSE IF action = "StatusNotification"
    THEN HandleStatusNotification(uid, payload, next, reg)
    ELSE IF action = "StartTransaction"
    THEN HandleStartTransaction(uid, payload, charge_point_id, next, reg)
    ELSE IF action = "StopTransaction"
    THEN [HandleStopTransaction(uid, payload, next, reg) EXCEPT
              !.reg = IF \E t \in DOMAIN reg \ DOMAIN @ : reg[t].chargePointId # charge_point_id
                      THEN reg ELSE @]
    ELSE Reply(json_dumps(_call_error(uid, "NotSupported", NotSupportedText)), next, reg)

Dispatch(uid, action, payload, charge_point_id, next, reg) ==
    IF action = "BootNotification" THEN HandleBootNotification(uid, payload, next, reg)
    ELSE IF action = "Heartbeat" THEN HandleHeartbeat(uid, payload, next, reg)
    ELSE IF action = "StatusNotification"
    THEN HandleStatusNotification(uid, payload, next, reg)
    ELSE IF action = "StartTransaction"
    THEN HandleStartTransaction(uid, payload, charge_point_id, next, reg)
    ELSE IF action = "StopTransaction" THEN HandleStopTransaction(uid, payload, next, reg)
    ELSE Reply(json_dumps(_call_error(uid, "NotSupported", NotSupportedText)), next, reg)

\* the body of the "async for message" loop up to its first send
HandleMessage(message, charge_point_id, next, reg) ==
    IF ~parse_message(message).ok
    THEN ErrorClose("invalid JSON (Expecting value)", next, reg)
    ELSE IF ~validate_call(parse_message(message).value).ok
    THEN ErrorClose(validate_call(parse_message(message).value).reason, next, reg)
    ELSE Dispatch(validate_call(parse_message(message).value).uid,
                  validate_call(parse_message(message).value).action,
                  validate_call(parse_message(message).value).payload,
                  charge_point_id, next, reg)


\* ------------------------------------------------------------------ state

\* the connections of the model, each named by the charge point of its path
Conns == {"CP_1", "CP_2"}
Path(c) == <<"/", c>>
\* the connection of client.py: uri = "ws://localhost:9000/CP_1"
Cp == "CP_1"

VARIABLES
    conn,                  \* per connection: "init", "refused", "open", "closed"
    close_code,            \* per connection: the close code, 0 while not closed
    c2s,                   \* per connection: texts sent by the client, not yet read
    s2c,                   \* per connection: entries sent by the server, not yet read
    next_transaction_id,   \* server.py _next_transaction_id
    active_transactions,   \* server.py _active_transactions
    srv_pc,                \* per connection: where handle_client stands ("stalled":
                           \*   a peer that has stopped answering)
    srv_out,               \* per connection: the reply decided and not yet sent
    issued,                \* history: the transaction ids replied to StartTransaction,
                           \*   in the order the Calls were handled
    ledger,                \* history: for each transaction started and not since
                           \*   stopped, the charge point and the Call's fields
    sent_count,            \* number of messages sent by the charge points of ServerSpec
    main_pc,               \* client main(): "connect", "send", "recv", "dwell",
                           \*   "lock", "join", "done"
    main_step,             \* client main(): the foreground step 1..4
    main_call,             \* client main(): the Call of the current step
    state,                 \* client main(): BOOTING or AVAILABLE
    interval,              \* client main(): the adopted heartbeat interval
    session,               \* client main(): <<>> or <<SessionState>>
    exit_code,             \* <<>> while main() runs, then <<code>>
    crashed,               \* main() ended by an exception it does not catch
    hb_pc,                 \* _heartbeat_loop: "none", "sleep", "lock", "send",
                           \*   "recv", "done", "failed", "cancelled"
    hb_idx,                \* _heartbeat_loop: idx
    hb_call,               \* _heartbeat_loop: heartbeat_call
    ws_lock,               \* the asyncio.Lock: "free", "main" or "hb"
    uid_count,             \* number of uids drawn so far
    trace,                 \* history: the client's sends and reads, in order
    fn_in,                 \* the value a function of common.py is applied to
    fn_out                 \* <<>>, or <<the function applied and what it gave>>

netVars == <<conn, close_code, c2s, s2c>>
srvVars == <<next_transaction_id, active_transactions, srv_pc, srv_out, issued, ledger>>
mainVars == <<main_pc, main_step, main_call, state, interval, session, exit_code, crashed>>
hbVars == <<hb_pc, hb_idx, hb_call>>
clientVars == <<mainVars, hbVars, ws_lock, uid_count, trace>>
fnVars == <<fn_in, fn_out>>
vars == <<netVars, srvVars, clientVars, sent_count, fnVars>>

\* max_count=3 of the heartbeat task
MaxCount == 3
\* asyncio.sleep(10) before StopTransaction, and the interval fallback
DwellSeconds == 10
DefaultInterval == 10

Steps == <<"BootNotification", "StatusNotification", "StartTransaction", "StopTransaction">>

_boot_notification_payload ==
    JObj([chargePointVendor |-> JStr("RalphCo"), chargePointModel |-> JStr("RalphModel1"),
          firmwareVersion |-> JStr("0.1.0"), meterType |-> JStr("RalphMeter")])

NoReply == [text |-> RawText(""), close |-> FALSE, re |-> None]
NoEntry == [text |-> RawText(""), re |-> None, fault |-> "none"]

ProgramInit ==
    /\ conn = [c \in Conns |-> "init"]
    /\ close_code = [c \in Conns |-> 0]
    /\ c2s = [c \in Conns |-> <<>>]
    /\ s2c = [c \in Conns |-> <<>>]
    /\ next_transaction_id = 1
    /\ active_transactions = [t \in {} |-> 0]
    /\ srv_pc = [c \in Conns |-> "idle"]
    /\ srv_out = [c \in Conns |-> NoReply]
    /\ issued = <<>>
    /\ ledger = [t \in {} |-> 0]
    /\ sent_count = 0
    /\ main_pc = "connect"
    /\ main_step = 1
    /\ main_call = make_call(new_uid(1), "BootNotification", _boot_notification_payload)
    /\ state = BOOTING
    /\ interval = 0
    /\ session = <<>>
    /\ exit_code = <<>>
    /\ crashed = FALSE
    /\ hb_pc = "none"
    /\ hb_idx = 0
    /\ hb_call = None
    /\ ws_lock = "free"
    /\ uid_count = 1
    /\ trace = <<>>

\* the two processes as they start; no function of common.py is under test
Init ==
    /\ ProgramInit
    /\ fn_in = None
    /\ fn_out = <<>>

\* -------------------------------------------------------------- transport

\* the connection is closed with a code, unless it is closed already
Closed(c, code) ==
    /\ conn' = [conn EXCEPT ![c] = IF @ = "open" THEN "closed" ELSE @]
    /\ close_code' = [close_code EXCEPT ![c] = IF conn[c] = "open" THEN code ELSE @]

\* The peer's answer as it reaches the client. What the server of this repository
\* sends is fault "none"; the other faults are the malformed answers a peer may
\* give: a text that is not JSON, a frame that is not a CallResult, a CallResult
\* with another uid, with a payload that is not an object, with an object payload
\* that refuses ("rejected"), or with an object payload that accepts but carries
\* no interval and JSON true as its transactionId ("odd").
Faults ==
    {"none", "not_json", "not_result", "wrong_uid", "payload_not_object", "rejected", "odd"}

Tamper(fault, text, uid) ==
    IF fault = "not_json" THEN RawText("garbage")
    ELSE IF fault = "not_result"
    THEN json_dumps(_call_error(uid, "InternalError", "failed"))
    ELSE IF fault = "wrong_uid"
    THEN json_dumps(make_call_result(JStr("other"), EmptyObj))
    ELSE IF fault = "payload_not_object"
    THEN json_dumps(make_call_result(uid, JStr("nope")))
    ELSE IF fault = "rejected"
    THEN json_dumps(make_call_result(uid,
             JObj([status |-> JStr("Rejected"), transactionId |-> JInt(1),
                   idTagInfo |-> JObj([status |-> JStr("Blocked")])])))
    ELSE IF fault = "odd"
    THEN json_dumps(make_call_result(uid,
             JObj([status |-> JStr("Accepted"), transactionId |-> JBool(TRUE),
                   idTagInfo |-> JObj([status |-> JStr("Accepted")])])))
    ELSE text

\* the network drops the connection (close code 1006, no close frame)
Drop(c) ==
    /\ conn[c] = "open"
    /\ Closed(c, 1006)
    /\ UNCHANGED <<c2s, s2c, srvVars, clientVars, sent_count, fnVars>>

\* ------------------------------------------ server.py handle_client, per connection

\* the uid a reply answers: the uid of the Call when the message is a valid Call
UidOfMessage(message) ==
    IF parse_message(message).ok /\ validate_call(parse_message(message).value).ok
    THEN validate_call(parse_message(message).value).uid
    ELSE None

\* What the exchange shows of a transaction, read off the message handled and the
\* reply decided for it (not off the registry): a StartTransaction Call answered
\* by a CallResult, and the id in it; a StopTransaction Call answered by a
\* CallResult, and the id it names.
IsAnswered(message, action, reply) ==
    /\ parse_message(message).ok
    /\ validate_call(parse_message(message).value).ok
    /\ validate_call(parse_message(message).value).action = action
    /\ parse_message(reply).ok
    /\ is_call_result(parse_message(reply).value)

PayloadOf(text) == Val(parse_message(text).value)[Len(Val(parse_message(text).value))]

IssuedAfter(seq, message, reply) ==
    IF IsAnswered(message, "StartTransaction", reply)
    THEN Append(seq, IntOf(Get(PayloadOf(reply), "transactionId")))
    ELSE seq

LedgerAfter(led, c, message, reply) ==
    IF IsAnswered(message, "StartTransaction", reply)
    THEN (IntOf(Get(PayloadOf(reply), "transactionId")) :>
              [chargePointId |-> c, connectorId |-> Get(PayloadOf(message), "connectorId"),
               meterStart |-> Get(PayloadOf(message), "meterStart")]) @@ led
    ELSE IF IsAnswered(message, "StopTransaction", reply)
    THEN [t \in (DOMAIN led) \ {IntOf(Get(PayloadOf(message), "transactionId"))} |-> led[t]]
    ELSE led

\* "async for message in websocket" yields a message, which is handled up to the
\* first send: parse, validate, dispatch, counter and registry updated
ServerRecv(c) ==
    /\ srv_pc[c] = "recv"
    /\ c2s[c] # <<>>
    /\ LET message == Head(c2s[c])
           r == HandleMessage(message, charge_point_id_of(Path(c)),
                              next_transaction_id, active_transactions)
       IN /\ next_transaction_id' = r.next
          /\ active_transactions' = r.reg
          /\ srv_out' = [srv_out EXCEPT ![c] =
                            [text |-> r.text, close |-> r.close, re |-> UidOfMessage(message)]]
          /\ srv_pc' = [srv_pc EXCEPT ![c] = IF r.close THEN "err_send" ELSE "send"]
          /\ issued' = IssuedAfter(issued, message, r.text)
          /\ ledger' = LedgerAfter(ledger, c, message, r.text)
    /\ c2s' = [c2s EXCEPT ![c] = Tail(@)]
    /\ UNCHANGED <<conn, close_code, s2c, clientVars, sent_count, fnVars>>

\* an end of the loop that drops the transactions of the connection
ServerRecvEndCleaning(c) ==
    /\ srv_pc[c] = "recv"
    /\ c2s[c] = <<>>
    /\ conn[c] = "closed"
    /\ srv_pc' = [srv_pc EXCEPT ![c] = "done"]
    /\ active_transactions' =
           [t \in {x \in DOMAIN active_transactions :
                      active_transactions[x].chargePointId # charge_point_id_of(Path(c))}
               |-> active_transactions[t]]
    /\ UNCHANGED <<netVars, next_transaction_id, srv_out, issued,
                   ledger, clientVars, sent_count, fnVars>>

\* the loop ends when the connection is closed and nothing is left to read
ServerRecvEnd(c) ==
    /\ srv_pc[c] = "recv"
    /\ c2s[c] = <<>>
    /\ conn[c] = "closed"
    /\ srv_pc' = [srv_pc EXCEPT ![c] = "done"]
    /\ UNCHANGED <<netVars, next_transaction_id, active_transactions, srv_out, issued,
                   ledger, clientVars, sent_count, fnVars>>

\* await websocket.send(response_text) of a CallResult or a CallError; on a closed
\* connection it raises ConnectionClosed, which ends handle_client
ServerSend(c, fault) ==
    /\ srv_pc[c] = "send"
    /\ IF conn[c] = "open"
       THEN /\ s2c' = [s2c EXCEPT ![c] =
                          Append(@, [text |-> Tamper(fault, srv_out[c].text, srv_out[c].re),
                                     re |-> srv_out[c].re, fault |-> fault])]
            /\ srv_pc' = [srv_pc EXCEPT ![c] = "recv"]
       ELSE /\ s2c' = s2c
            /\ srv_pc' = [srv_pc EXCEPT ![c] = "done"]
    /\ srv_out' = [srv_out EXCEPT ![c] = NoReply]
    /\ UNCHANGED <<conn, close_code, c2s, next_transaction_id, active_transactions,
                   issued, ledger, clientVars, sent_count, fnVars>>

\* _send_error_and_close: await websocket.send(text)
ServerErrSend(c) ==
    /\ srv_pc[c] = "err_send"
    /\ IF conn[c] = "open"
       THEN /\ s2c' = [s2c EXCEPT ![c] =
                          Append(@, [text |-> srv_out[c].text, re |-> srv_out[c].re,
                                     fault |-> "none"])]
            /\ srv_pc' = [srv_pc EXCEPT ![c] = "err_close"]
       ELSE /\ s2c' = s2c
            /\ srv_pc' = [srv_pc EXCEPT ![c] = "done"]
    /\ UNCHANGED <<conn, close_code, c2s, next_transaction_id, active_transactions,
                   srv_out, issued, ledger, clientVars, sent_count, fnVars>>

\* _send_error_and_close: await websocket.close(code=1002, reason=text); return
ServerErrClose(c) ==
    /\ srv_pc[c] = "err_close"
    /\ Closed(c, 1002)
    /\ srv_pc' = [srv_pc EXCEPT ![c] = "done"]
    /\ srv_out' = [srv_out EXCEPT ![c] = NoReply]
    /\ UNCHANGED <<c2s, s2c, next_transaction_id, active_transactions, issued, ledger,
                   clientVars, sent_count, fnVars>>

\* ------------------------------------------------- client.py, the checks

\* a == b of two JSON values, one of them a string
JEq(a, b) == Tag(a) = Tag(b) /\ Val(a) = Val(b)

\* a check that lets every uid pass
UidMatchesAny(response, uid) == TRUE

\* response[1] != uid is false
UidMatches(response, uid) == JEq(Val(response)[2], uid)

\* parse_message, then is_call_result and the uid, then parse_call_result_payload:
\* [ok |-> TRUE, payload], or [ok |-> FALSE, reason] where the code gives up
CallResultPayload(text, uid) ==
    IF ~parse_message(text).ok THEN Raise("invalid JSON response")
    ELSE IF ~is_call_result(parse_message(text).value)
            \/ ~UidMatches(parse_message(text).value, uid)
    THEN Raise("invalid CALLRESULT")
    ELSE parse_call_result_payload(parse_message(text).value)

\* a BootNotification check that lets every status pass
BootAcceptedAnyStatus(boot_payload) == TRUE

\* status != "Accepted" is false
BootAccepted(boot_payload) == PyEqStr(Get(boot_payload, "status"), "Accepted")

\* interval = boot_payload.get("interval"), 10 unless a positive int
AdoptInterval(boot_payload) ==
    IF IsInt(Get(boot_payload, "interval")) /\ IntOf(Get(boot_payload, "interval")) > 0
    THEN IntOf(Get(boot_payload, "interval"))
    ELSE DefaultInterval

IdTagAccepted(payload) ==
    /\ IsDict(GetOr(payload, "idTagInfo", EmptyObj))
    /\ PyEqStr(Get(GetOr(payload, "idTagInfo", EmptyObj), "status"), "Accepted")

\* a StartTransaction check that forgets idTagInfo
StartAcceptedIdOnly(start_payload) == IsInt(Get(start_payload, "transactionId"))

StartAccepted(start_payload) ==
    /\ IsInt(Get(start_payload, "transactionId"))
    /\ IdTagAccepted(start_payload)

StopAccepted(stop_payload) == IdTagAccepted(stop_payload)

\* the step's response passes every check of main()
StepAccepted(step, text, uid) ==
    /\ CallResultPayload(text, uid).ok
    /\ IF step = 1 THEN BootAccepted(CallResultPayload(text, uid).payload)
       ELSE IF step = 3 THEN StartAccepted(CallResultPayload(text, uid).payload)
       ELSE IF step = 4 THEN StopAccepted(CallResultPayload(text, uid).payload)
       ELSE TRUE

\* the Heartbeat response passes every check of _heartbeat_loop
HeartbeatAcknowledged(text, uid) == CallResultPayload(text, uid).ok

\* the exception of the task is swallowed
JoinExitCodeZero == IF hb_pc = "failed" THEN 0 ELSE 0

\* await heartbeat_task; return 0: the exception the task ended with is raised
\* in main() and the process exits with status 1
JoinExitCode == IF hb_pc = "failed" THEN 1 ELSE 0

\* a loop that goes on after a bad response
HbAfterRecvContinue(acknowledged, idx) == IF idx + 1 < MaxCount THEN "sleep" ELSE "done"

\* a loop that makes one iteration more than max_count
HbAfterRecvOneMore(acknowledged, idx) ==
    IF acknowledged /\ idx < MaxCount THEN "sleep" ELSE "done"

\* where _heartbeat_loop stands after the response of iteration idx: it returns
\* on a bad response and when the range is exhausted
HbAfterRecv(acknowledged, idx) ==
    IF acknowledged /\ idx + 1 < MaxCount THEN "sleep" ELSE "done"

\* main() returns without awaiting the task
HeartbeatTaskNotAwaited == TRUE

\* await heartbeat_task returns or raises: the task has ended
HeartbeatTaskEnded == hb_pc \in {"done", "failed"}

\* a lock that excludes nobody
CanAcquireUnguarded == TRUE

\* async with ws_lock: the lock can be taken
CanAcquire == ws_lock = "free"

\* a lock that its holder keeps
ReleasedNever(holder) == ws_lock

\* the end of "async with ws_lock", also when left by return or by an
\* exception: the lock is free again if the activity held it
Released(holder) == IF ws_lock = holder THEN "free" ELSE ws_lock

\* ------------------------------------------------- client.py main()

SendEvent(by, call) == [ev |-> "send", by |-> by, call |-> call, entry |-> NoEntry]
ReadEvent(by, call, entry) == [ev |-> "read", by |-> by, call |-> call, entry |-> entry]

\* main() ends: the exit code, the connection closed by "async with connect_ctx",
\* the lock released if main() held it
Finish(code, exception) ==
    /\ main_pc' = "done"
    /\ exit_code' = <<code>>
    /\ crashed' = exception
    /\ Closed(Cp, 1000)
    /\ ws_lock' = Released("main")

\* async with connect_ctx as websocket: connected, or ConnectionRefusedError
MainConnect(refused) ==
    /\ main_pc = "connect"
    /\ IF refused
       THEN /\ conn' = [conn EXCEPT ![Cp] = "refused"]
            /\ main_pc' = "done"
            /\ exit_code' = <<1>>
            /\ srv_pc' = srv_pc
       ELSE /\ conn' = [conn EXCEPT ![Cp] = "open"]
            /\ main_pc' = "send"
            /\ exit_code' = exit_code
            /\ srv_pc' = [srv_pc EXCEPT ![Cp] = "recv"]
    /\ UNCHANGED <<close_code, c2s, s2c, next_transaction_id, active_transactions, srv_out,
                   issued, ledger, main_step, main_call, state, interval, session,
                   crashed, hbVars, ws_lock, uid_count, trace, sent_count, fnVars>>

\* await websocket.send(...) of the current step's Call
MainSend ==
    /\ main_pc = "send"
    /\ IF conn[Cp] = "open"
       THEN /\ c2s' = [c2s EXCEPT ![Cp] = Append(@, json_dumps(main_call))]
            /\ trace' = Append(trace, SendEvent("main", main_call))
            /\ main_pc' = "recv"
            /\ UNCHANGED <<conn, close_code, exit_code, crashed, ws_lock>>
       ELSE /\ Finish(1, TRUE)
            /\ UNCHANGED <<c2s, trace>>
    /\ UNCHANGED <<s2c, srvVars, sent_count, fnVars, main_step, main_call, state, interval, session, hbVars,
                   uid_count>>

\* await websocket.recv() raises ConnectionClosed
MainRecvClosed ==
    /\ main_pc = "recv"
    /\ s2c[Cp] = <<>>
    /\ conn[Cp] # "open"
    /\ Finish(1, TRUE)
    /\ UNCHANGED <<c2s, s2c, srvVars, sent_count, fnVars, main_step, main_call, state, interval, session,
                   hbVars, uid_count, trace>>

\* the BootNotification response is read and checked (lines 129-165)
MainRecvBoot ==
    /\ main_pc = "recv" /\ main_step = 1
    /\ s2c[Cp] # <<>>
    /\ s2c' = [s2c EXCEPT ![Cp] = Tail(@)]
    /\ trace' = Append(trace, ReadEvent("main", main_call, Head(s2c[Cp])))
    /\ IF StepAccepted(1, Head(s2c[Cp]).text, Val(main_call)[2])
       THEN /\ interval' = AdoptInterval(CallResultPayload(Head(s2c[Cp]).text,
                                                           Val(main_call)[2]).payload)
            /\ state' = AVAILABLE
            /\ main_call' = make_status_notification_call(new_uid(uid_count + 1), 0,
                                                          "Available", "NoError")
            /\ uid_count' = uid_count + 1
            /\ main_step' = 2
            /\ main_pc' = "send"
            /\ UNCHANGED <<conn, close_code, exit_code, crashed, ws_lock>>
       ELSE /\ Finish(1, FALSE)
            /\ UNCHANGED <<interval, state, main_call, uid_count, main_step>>
    /\ UNCHANGED <<c2s, srvVars, sent_count, fnVars, session, hbVars>>

\* the StatusNotification response is read and checked (lines 169-192)
MainRecvStatus ==
    /\ main_pc = "recv" /\ main_step = 2
    /\ s2c[Cp] # <<>>
    /\ s2c' = [s2c EXCEPT ![Cp] = Tail(@)]
    /\ trace' = Append(trace, ReadEvent("main", main_call, Head(s2c[Cp])))
    /\ IF StepAccepted(2, Head(s2c[Cp]).text, Val(main_call)[2])
       THEN /\ main_call' = make_start_transaction_call(new_uid(uid_count + 1), 1, "TEST", 0)
            /\ uid_count' = uid_count + 1
            /\ main_step' = 3
            /\ main_pc' = "send"
            /\ UNCHANGED <<conn, close_code, exit_code, crashed, ws_lock>>
       ELSE /\ Finish(1, FALSE)
            /\ UNCHANGED <<main_call, uid_count, main_step>>
    /\ UNCHANGED <<c2s, srvVars, sent_count, fnVars, state, interval, session, hbVars>>

\* the StartTransaction response is read and checked, the session is created, the
\* lock and the heartbeat task are created, and main() sleeps (lines 195-231)
MainRecvStart ==
    /\ main_pc = "recv" /\ main_step = 3
    /\ s2c[Cp] # <<>>
    /\ s2c' = [s2c EXCEPT ![Cp] = Tail(@)]
    /\ trace' = Append(trace, ReadEvent("main", main_call, Head(s2c[Cp])))
    /\ IF StepAccepted(3, Head(s2c[Cp]).text, Val(main_call)[2])
       THEN /\ session' = <<[transaction_id |->
                                Get(CallResultPayload(Head(s2c[Cp]).text,
                                                      Val(main_call)[2]).payload,
                                    "transactionId"),
                             connector_id |-> 1, meter_start |-> 0, meter_stop |-> 42]>>
            /\ ws_lock' = "free"
            /\ hb_pc' = IF MaxCount > 0 THEN "sleep" ELSE "done"
            /\ hb_idx' = 0
            /\ main_pc' = "dwell"
            /\ UNCHANGED <<conn, close_code, exit_code, crashed>>
       ELSE /\ Finish(1, FALSE)
            /\ UNCHANGED <<session, hb_pc, hb_idx>>
    /\ UNCHANGED <<c2s, srvVars, sent_count, fnVars, main_step, main_call, state, interval, hb_call, uid_count>>

\* await asyncio.sleep(10) returns; the StopTransaction Call is made (lines 231-239)
MainDwell ==
    /\ main_pc = "dwell"
    /\ main_call' = make_stop_transaction_call(new_uid(uid_count + 1),
                                               session[1].transaction_id, "TEST",
                                               session[1].meter_stop, "Local")
    /\ uid_count' = uid_count + 1
    /\ main_step' = 4
    /\ main_pc' = "lock"
    /\ UNCHANGED <<netVars, srvVars, sent_count, fnVars, state, interval, session, exit_code, crashed, hbVars,
                   ws_lock, trace>>

\* async with ws_lock (line 240)
MainAcquire ==
    /\ main_pc = "lock"
    /\ CanAcquire
    /\ ws_lock' = "main"
    /\ main_pc' = "send"
    /\ UNCHANGED <<netVars, srvVars, sent_count, fnVars, main_step, main_call, state, interval, session,
                   exit_code, crashed, hbVars, uid_count, trace>>

\* the StopTransaction response is read, the lock released, the response checked
\* (lines 243-263)
MainRecvStop ==
    /\ main_pc = "recv" /\ main_step = 4
    /\ s2c[Cp] # <<>>
    /\ s2c' = [s2c EXCEPT ![Cp] = Tail(@)]
    /\ trace' = Append(trace, ReadEvent("main", main_call, Head(s2c[Cp])))
    /\ IF StepAccepted(4, Head(s2c[Cp]).text, Val(main_call)[2])
       THEN /\ main_pc' = "join"
            /\ ws_lock' = Released("main")
            /\ UNCHANGED <<conn, close_code, exit_code, crashed>>
       ELSE Finish(1, FALSE)
    /\ UNCHANGED <<c2s, srvVars, sent_count, fnVars, main_step, main_call, state, interval, session, hbVars,
                   uid_count>>

\* await heartbeat_task; return 0 (lines 265-266): the task has returned, or it
\* has raised and main() raises with it
MainJoin ==
    /\ main_pc = "join"
    /\ HeartbeatTaskEnded
    /\ Finish(JoinExitCode, hb_pc = "failed")
    /\ UNCHANGED <<c2s, s2c, srvVars, sent_count, fnVars, main_step, main_call, state, interval, session,
                   hbVars, uid_count, trace>>

\* ------------------------------------------------- client.py _heartbeat_loop

\* await asyncio.sleep(interval) returns; the Heartbeat Call is made (lines 77-79)
HbSleep ==
    /\ hb_pc = "sleep"
    /\ hb_call' = make_heartbeat_call(new_uid(uid_count + 1))
    /\ uid_count' = uid_count + 1
    /\ hb_pc' = "lock"
    /\ UNCHANGED <<netVars, srvVars, sent_count, fnVars, mainVars, hb_idx, ws_lock, trace>>

\* async with ws_lock (line 80)
HbAcquire ==
    /\ hb_pc = "lock"
    /\ CanAcquire
    /\ ws_lock' = "hb"
    /\ hb_pc' = "send"
    /\ UNCHANGED <<netVars, srvVars, sent_count, fnVars, mainVars, hb_idx, hb_call, uid_count, trace>>

\* await websocket.send(json.dumps(heartbeat_call)) (line 81); on a closed
\* connection it raises ConnectionClosed, which ends the task
HbSend ==
    /\ hb_pc = "send"
    /\ IF conn[Cp] = "open"
       THEN /\ c2s' = [c2s EXCEPT ![Cp] = Append(@, json_dumps(hb_call))]
            /\ trace' = Append(trace, SendEvent("hb", hb_call))
            /\ hb_pc' = "recv"
            /\ ws_lock' = ws_lock
       ELSE /\ hb_pc' = "failed"
            /\ ws_lock' = Released("hb")
            /\ UNCHANGED <<c2s, trace>>
    /\ UNCHANGED <<conn, close_code, s2c, srvVars, sent_count, fnVars, mainVars, hb_idx, hb_call, uid_count>>

\* the Heartbeat response is read, the lock released, the response checked: the
\* loop returns on a bad response and after the last iteration (lines 83-102)
HbRecv ==
    /\ hb_pc = "recv"
    /\ s2c[Cp] # <<>>
    /\ s2c' = [s2c EXCEPT ![Cp] = Tail(@)]
    /\ trace' = Append(trace, ReadEvent("hb", hb_call, Head(s2c[Cp])))
    /\ ws_lock' = Released("hb")
    /\ hb_pc' = HbAfterRecv(HeartbeatAcknowledged(Head(s2c[Cp]).text, Val(hb_call)[2]),
                            hb_idx)
    /\ hb_idx' = hb_idx + 1
    /\ UNCHANGED <<conn, close_code, c2s, srvVars, sent_count, fnVars, mainVars, hb_call, uid_count>>

\* await websocket.recv() raises ConnectionClosed, which ends the task
HbRecvClosed ==
    /\ hb_pc = "recv"
    /\ s2c[Cp] = <<>>
    /\ conn[Cp] # "open"
    /\ hb_pc' = "failed"
    /\ ws_lock' = Released("hb")
    /\ UNCHANGED <<netVars, srvVars, sent_count, fnVars, mainVars, hb_idx, hb_call, uid_count, trace>>

\* asyncio.run cancels the heartbeat task that is left when main() has ended
HbCancel ==
    /\ main_pc = "done"
    /\ hb_pc \in {"sleep", "lock", "send", "recv"}
    /\ hb_pc' = "cancelled"
    /\ ws_lock' = Released("hb")
    /\ UNCHANGED <<netVars, srvVars, sent_count, fnVars, mainVars, hb_idx, hb_call, uid_count, trace>>

\* ------------------------------------------------- the client and its server

Next ==
    \/ \E refused \in BOOLEAN : MainConnect(refused)
    \/ MainSend
    \/ MainRecvClosed
    \/ MainRecvBoot
    \/ MainRecvStatus
    \/ MainRecvStart
    \/ MainDwell
    \/ MainAcquire
    \/ MainRecvStop
    \/ MainJoin
    \/ HbSleep
    \/ HbAcquire
    \/ HbSend
    \/ HbRecv
    \/ HbRecvClosed
    \/ HbCancel
    \/ ServerRecv(Cp)
    \/ ServerRecvEnd(Cp)
    \/ \E fault \in Faults : ServerSend(Cp, fault)
    \/ Drop(Cp)

Spec == Init /\ [][Next]_vars

\* ------------------------------------------------- properties of the client

SendsOf(tr) == {i \in DOMAIN tr : tr[i].ev = "send"}
ReadsOf(tr) == {i \in DOMAIN tr : tr[i].ev = "read"}
\* the activities that have sent a Call and are waiting for its response
Awaiting == {a \in {"main", "hb"} :
                (a = "main" /\ main_pc = "recv") \/ (a = "hb" /\ hb_pc = "recv")}

\* C1: on the client's connection at most one Call has been sent and is still
\* awaiting its response: the foreground sequence and the heartbeat loop never
\* both wait for a response, and the Calls sent exceed the responses read by at
\* most one.
C1_AtMostOneOutstanding ==
    /\ Cardinality(Awaiting) <= 1
    /\ Cardinality(SendsOf(trace)) - Cardinality(ReadsOf(trace)) \in {0, 1}
    /\ Len(c2s[Cp]) + Len(s2c[Cp]) <= 1

\* the heartbeat loop wants the lock while StopTransaction awaits its response
C1_Witness ==
    /\ main_pc = "recv" /\ main_step = 4 /\ ws_lock = "main"
    /\ hb_pc = "lock"
    /\ Cardinality(SendsOf(trace)) - Cardinality(ReadsOf(trace)) = 1

\* C2: every response read by a client activity is the server's answer to the
\* Call that activity just sent, and, as the server sent it, carries that
\* Call's uid.
C2_ResponseAnswersOwnCall ==
    \A i \in ReadsOf(trace) :
        /\ trace[i].entry.re = Val(trace[i].call)[2]
        /\ trace[i].entry.fault = "none" =>
               /\ trace[i].entry.text[1] = "json"
               /\ Tag(trace[i].entry.text[2]) = "list"
               /\ Val(trace[i].entry.text[2])[2] = Val(trace[i].call)[2]

\* StopTransaction and a Heartbeat have both been answered, each to its sender,
\* the heartbeat having waited for the lock behind StopTransaction
C2_Witness ==
    /\ \E i \in ReadsOf(trace) : trace[i].by = "hb" /\ trace[i].entry.fault = "none"
    /\ \E i \in ReadsOf(trace) :
           /\ trace[i].by = "main"
           /\ Val(trace[i].call)[3] = JStr("StopTransaction")
           /\ trace[i].entry.fault = "none"
           /\ \E j \in ReadsOf(trace) : j > i /\ trace[j].by = "hb"

\* What the claims call a CallResult for a Call, read off the wire text: JSON, a
\* list of at least three elements that starts with 3 and carries the uid of
\* the Call, with an object as payload.
TextIsCallResultFor(text, call) ==
    /\ text[1] = "json"
    /\ Tag(text[2]) = "list"
    /\ Len(Val(text[2])) >= 3
    /\ Val(text[2])[1] = <<"int", 3>>
    /\ Val(text[2])[2] = Val(call)[2]
    /\ Tag(Val(text[2])[3]) = "obj"

ResultPayloadOf(text) == Val(Val(text[2])[3])

HasAcceptedIdTag(p) ==
    /\ "idTagInfo" \in DOMAIN p
    /\ Tag(p["idTagInfo"]) = "obj"
    /\ "status" \in DOMAIN Val(p["idTagInfo"])
    /\ Val(p["idTagInfo"])["status"] = <<"str", "Accepted">>

\* The acceptance predicate of each foreground step, on the payload object. An
\* integer is what Python calls an int, which a JSON true or false is as well.
StepPredicate(action, p) ==
    IF action = "BootNotification"
    THEN "status" \in DOMAIN p /\ p["status"] = <<"str", "Accepted">>
    ELSE IF action = "StatusNotification"
    THEN TRUE
    ELSE IF action = "StartTransaction"
    THEN /\ "transactionId" \in DOMAIN p
         /\ Tag(p["transactionId"]) \in {"int", "bool"}
         /\ HasAcceptedIdTag(p)
    ELSE HasAcceptedIdTag(p)

ActionOf(call) == Val(Val(call)[3])

\* the response read at trace[i] is acceptable for the Call it was read for
AcceptableAt(i) ==
    /\ TextIsCallResultFor(trace[i].entry.text, trace[i].call)
    /\ StepPredicate(ActionOf(trace[i].call), ResultPayloadOf(trace[i].entry.text))

\* for a Heartbeat any CallResult with the uid of the Call will do
AcknowledgedAt(i) == TextIsCallResultFor(trace[i].entry.text, trace[i].call)

MainReads == {i \in ReadsOf(trace) : trace[i].by = "main"}
HbReads == {i \in ReadsOf(trace) : trace[i].by = "hb"}
MainSends == {i \in SendsOf(trace) : trace[i].by = "main"}
HbSends == {i \in SendsOf(trace) : trace[i].by = "hb"}
StepOf(i) == CHOOSE k \in DOMAIN Steps : Steps[k] = ActionOf(trace[i].call)

\* C6: when the run has reported success (exit code 0), each of the four
\* foreground steps has read a CallResult with the uid of its Call that
\* satisfies the acceptance predicate of the step.
C6_SuccessMeansAllStepsAccepted ==
    exit_code = <<0>> =>
        \A k \in DOMAIN Steps :
            \E i \in MainReads : ActionOf(trace[i].call) = Steps[k] /\ AcceptableAt(i)

\* a successful run, with the three heartbeats acknowledged on the way
C6_Witness ==
    /\ exit_code = <<0>>
    /\ Cardinality(MainReads) = 4
    /\ Cardinality({i \in HbReads : AcknowledgedAt(i)}) = MaxCount

\* C7 as stated: when the run has reported success, the heartbeat loop has
\* made all of its iterations and each read a CallResult with the uid of its
\* Heartbeat Call.
C7_SuccessMeansAllHeartbeats ==
    exit_code = <<0>> =>
        /\ Cardinality(HbReads) = MaxCount
        /\ \A i \in HbReads : AcknowledgedAt(i)

\* C7, amended: when the run has reported success, the heartbeat loop has
\* ended and each of its Calls has been answered; every response but the last
\* was a CallResult with the uid of its Heartbeat Call, and the loop ended
\* either after all of its iterations or at the first response that was not
\* such a CallResult.
C7_SuccessMeansHeartbeatEnded ==
    exit_code = <<0>> =>
        /\ hb_pc = "done"
        /\ Cardinality(HbSends) = Cardinality(HbReads)
        /\ Cardinality(HbReads) <= MaxCount
        /\ \A i \in HbReads : AcknowledgedAt(i) \/ (\A j \in HbReads : j <= i)
        /\ \/ Cardinality(HbReads) = MaxCount
           \/ \E i \in HbReads : ~AcknowledgedAt(i)

\* success after the heartbeat loop gave up at its second iteration
C7_Witness ==
    /\ exit_code = <<0>>
    /\ Cardinality(HbReads) = 2
    /\ \E i \in HbReads : ~AcknowledgedAt(i)

\* C8: the foreground Calls go out in the order BootNotification,
\* StatusNotification, StartTransaction, StopTransaction, each at most once
\* and each after an acceptable response to the one before it; no Heartbeat
\* goes out before an acceptable response to StartTransaction.
C8_ForegroundOrder ==
    /\ \A i \in MainSends, j \in MainSends : i < j => StepOf(i) < StepOf(j)
    /\ \A i \in MainSends :
           StepOf(i) > 1 =>
               \E j \in MainReads : j < i /\ StepOf(j) = StepOf(i) - 1 /\ AcceptableAt(j)
    /\ \A i \in HbSends :
           /\ ActionOf(trace[i].call) = "Heartbeat"
           /\ \E j \in MainReads :
                  j < i /\ ActionOf(trace[j].call) = "StartTransaction" /\ AcceptableAt(j)

\* all four foreground Calls are out and a Heartbeat went between the last two
C8_Witness ==
    /\ Cardinality(MainSends) = 4
    /\ \E i \in HbSends : \A j \in MainSends : StepOf(j) = 4 => i < j

\* C9: once a foreground step has read a response that is not JSON, not a
\* CallResult, carries another uid or fails the step's predicate, the run has
\* ended with exit code 1, by return and not by an exception, and no Call,
\* foreground or Heartbeat, has been sent since.
C9_BadForegroundResponseEndsRun ==
    \A i \in MainReads :
        ~AcceptableAt(i) =>
            /\ exit_code = <<1>>
            /\ ~crashed
            /\ \A j \in SendsOf(trace) : j < i

\* StopTransaction is refused while the heartbeat loop still had iterations to
\* make: the loop can send nothing more
C9_Witness ==
    /\ \E i \in MainReads : StepOf(i) = 4 /\ ~AcceptableAt(i)
    /\ hb_idx < MaxCount
    /\ hb_pc \in {"failed", "cancelled"}

\* C10: once a heartbeat iteration has read a response that is not a
\* CallResult with the uid of its Call, the loop has ended without another
\* Heartbeat; the foreground is not aborted: when main() ends by returning it
\* has read a response to StopTransaction, and the exit code is 0 exactly when
\* that response was acceptable.
C10_BadHeartbeatResponseEndsLoopOnly ==
    \A i \in HbReads :
        ~AcknowledgedAt(i) =>
            /\ hb_pc = "done"
            /\ \A j \in HbSends : j < i
            /\ (exit_code # <<>> /\ ~crashed) =>
                   \E j \in MainReads :
                       /\ StepOf(j) = 4
                       /\ exit_code = <<0>> <=> AcceptableAt(j)

\* the first heartbeat is answered with another uid and the run succeeds
C10_Witness ==
    /\ Cardinality(HbReads) = 1
    /\ \E i \in HbReads : trace[i].entry.fault = "wrong_uid"
    /\ exit_code = <<0>>

\* ------------------------------------- the server and arbitrary charge points

\* the messages a charge point sends in all, over every connection
MaxSends == 3
\* the transaction ids a StopTransaction may name
StopIds == {1, 2}

CallText(uid, action, payload) == json_dumps(make_call(JStr(uid), action, payload))

StartPayload(connector_id, id_tag, meter_start) ==
    JObj([connectorId |-> JInt(connector_id), idTag |-> JStr(id_tag),
          meterStart |-> JInt(meter_start), timestamp |-> JStr(utc_now_iso_z)])

StopPayload(transaction_id) ==
    JObj([transactionId |-> transaction_id, meterStop |-> JInt(42),
          timestamp |-> JStr(utc_now_iso_z), idTag |-> JStr("TEST"),
          reason |-> JStr("Local")])

StatusPayload(connector_id) ==
    JObj([connectorId |-> JInt(connector_id), status |-> JStr("Available"),
          errorCode |-> JStr("NoError"), timestamp |-> JStr(utc_now_iso_z)])

\* what a charge point may send: a StatusNotification for a connector out of
\* range, two StartTransactions on different connectors, and
\* StopTransactions of known and unknown ids
ClientMessages ==
    {CallText("status2", "StatusNotification", StatusPayload(2)),
     CallText("start", "StartTransaction", StartPayload(1, "TEST", 0)),
     CallText("start0", "StartTransaction", StartPayload(0, "TEST", 7))}
    \cup {CallText("stop" \o ToString(t), "StopTransaction", StopPayload(JInt(t))) :
              t \in StopIds}

\* a charge point connects: handle_client starts for the connection
AnyConnect(c) ==
    /\ conn[c] = "init"
    /\ conn' = [conn EXCEPT ![c] = "open"]
    /\ srv_pc' = [srv_pc EXCEPT ![c] = "recv"]
    /\ UNCHANGED <<close_code, c2s, s2c, next_transaction_id, active_transactions, srv_out,
                   issued, ledger, clientVars, sent_count, fnVars>>

\* a charge point sends a message
AnySend(c, message) ==
    /\ conn[c] = "open"
    /\ sent_count < MaxSends
    /\ sent_count' = sent_count + 1
    /\ c2s' = [c2s EXCEPT ![c] = Append(@, message)]
    /\ UNCHANGED <<conn, close_code, s2c, srvVars, clientVars, fnVars>>

\* a charge point reads the next text the server sent it
AnyRecv(c) ==
    /\ s2c[c] # <<>>
    /\ s2c' = [s2c EXCEPT ![c] = Tail(@)]
    /\ UNCHANGED <<conn, close_code, c2s, srvVars, clientVars, sent_count, fnVars>>

\* a charge point closes its connection
AnyClose(c) ==
    /\ conn[c] = "open"
    /\ Closed(c, 1000)
    /\ UNCHANGED <<c2s, s2c, srvVars, clientVars, sent_count, fnVars>>

ServerNext ==
    \/ \E c \in Conns : AnyConnect(c)
    \/ \E c \in Conns : \E message \in ClientMessages : AnySend(c, message)
    \/ \E c \in Conns : AnyRecv(c)
    \/ \E c \in Conns : AnyClose(c)
    \/ \E c \in Conns : ServerRecv(c)
    \/ \E c \in Conns : ServerRecvEnd(c)
    \/ \E c \in Conns : ServerSend(c, "none")
    \/ \E c \in Conns : ServerErrSend(c)
    \/ \E c \in Conns : ServerErrClose(c)

ServerSpec == Init /\ [][ServerNext]_vars

\* ------------------------------------------------- properties of the server

\* C3: the transactionId values returned by accepted StartTransaction calls, in
\* the order the calls are handled, start at 1, are strictly increasing and are
\* never repeated, also after a StopTransaction has removed a transaction.
C3_TransactionIdsIncrease ==
    /\ issued # <<>> => issued[1] = 1
    /\ \A i \in DOMAIN issued : \A j \in DOMAIN issued : i < j => issued[i] < issued[j]
    /\ Cardinality({issued[i] : i \in DOMAIN issued}) = Len(issued)

\* two transactions were started and the first one stopped: the second id is
\* new, although the first is no longer in the registry
C3_Witness ==
    /\ issued = <<1, 2>>
    /\ DOMAIN active_transactions = {2}

\* C4: with the handlers of several connections interleaved, no two accepted
\* StartTransaction calls receive the same transactionId, and the registry holds
\* exactly the transactions that were started and not since stopped.
C4_NoLostUpdate ==
    /\ \A i \in DOMAIN issued : \A j \in DOMAIN issued : i # j => issued[i] # issued[j]
    /\ DOMAIN active_transactions = DOMAIN ledger
    /\ \A t \in DOMAIN ledger : active_transactions[t].chargePointId = ledger[t].chargePointId

\* both connections have a started transaction in the registry, and both handlers
\* wait on the transport with a reply still to send
C4_Witness ==
    /\ srv_pc["CP_1"] = "send" /\ srv_pc["CP_2"] = "send"
    /\ \E t \in DOMAIN active_transactions : active_transactions[t].chargePointId = "CP_1"
    /\ \E t \in DOMAIN active_transactions : active_transactions[t].chargePointId = "CP_2"

\* the preconditions of C5, as the claim states them
C5_ValidStart(message) ==
    /\ parse_message(message).ok
    /\ validate_call(parse_message(message).value).ok
    /\ validate_call(parse_message(message).value).action = "StartTransaction"
    /\ LET payload == validate_call(parse_message(message).value).payload
       IN /\ Get(payload, "connectorId") \in {JInt(0), JInt(1)}
          /\ Tag(Get(payload, "idTag")) = "str" /\ Val(Get(payload, "idTag")) # ""
          /\ Tag(Get(payload, "meterStart")) = "int"
          /\ Tag(Get(payload, "timestamp")) = "str" /\ Val(Get(payload, "timestamp")) # ""

C5_ValidStop(message) ==
    /\ parse_message(message).ok
    /\ validate_call(parse_message(message).value).ok
    /\ validate_call(parse_message(message).value).action = "StopTransaction"
    /\ LET payload == validate_call(parse_message(message).value).payload
       IN /\ Tag(Get(payload, "transactionId")) = "int"
          /\ Tag(Get(payload, "meterStop")) = "int"
          /\ Tag(Get(payload, "timestamp")) = "str" /\ Val(Get(payload, "timestamp")) # ""

C5_RepliesAccepted(reply) ==
    /\ reply[1] = "json"
    /\ Tag(reply[2]) = "list" /\ Len(Val(reply[2])) = 3
    /\ Val(reply[2])[1] = JInt(3)
    /\ Tag(Val(reply[2])[3]) = "obj"
    /\ "idTagInfo" \in DOMAIN Val(Val(reply[2])[3])
    /\ Val(Val(reply[2])[3]).idTagInfo = JObj([status |-> JStr("Accepted")])

\* connection c handles a message in this step
C5_Handles(c) == srv_pc[c] = "recv" /\ srv_pc'[c] \in {"send", "err_send"}

C5_StartStep(c) ==
    C5_ValidStart(Head(c2s[c])) =>
        /\ C5_RepliesAccepted(srv_out'[c].text)
        /\ "transactionId" \in DOMAIN Val(Val(srv_out'[c].text[2])[3])
        /\ Tag(Val(Val(srv_out'[c].text[2])[3]).transactionId) = "int"
        /\ LET t == Val(Val(Val(srv_out'[c].text[2])[3]).transactionId)
               payload == Val(parse_message(Head(c2s[c])).value)[4]
           IN /\ t \in DOMAIN active_transactions'
              /\ active_transactions'[t] =
                     [chargePointId |-> c, connectorId |-> Val(payload).connectorId,
                      meterStart |-> Val(payload).meterStart]

C5_StopStep(c) ==
    C5_ValidStop(Head(c2s[c])) =>
        /\ C5_RepliesAccepted(srv_out'[c].text)
        /\ Val(Val(Val(parse_message(Head(c2s[c])).value)[4]).transactionId)
               \notin DOMAIN active_transactions'

\* C5: an accepted StartTransaction is answered with a transactionId t and
\* idTagInfo.status "Accepted" and the registry then maps t to the connection's
\* chargePointId, the connectorId and the meterStart, and keeps doing so until a
\* StopTransaction names t; a valid StopTransaction with transactionId t is
\* answered with idTagInfo.status "Accepted" and the registry then no longer
\* contains t.
C5_StartThenStop ==
    /\ [](\A t \in DOMAIN ledger :
              t \in DOMAIN active_transactions /\ active_transactions[t] = ledger[t])
    /\ [][\A c \in Conns : C5_Handles(c) => C5_StartStep(c) /\ C5_StopStep(c)]_vars

\* transaction 1 was started, and the StopTransaction naming it, sent on CP_2,
\* has been answered "Accepted" and has removed it
C5_Witness ==
    /\ issued = <<1>>
    /\ active_transactions = [t \in {} |-> 0]
    /\ s2c["CP_2"] # <<>>
    /\ s2c["CP_2"][Len(s2c["CP_2"])].re = JStr("stop1")
    /\ C5_RepliesAccepted(s2c["CP_2"][Len(s2c["CP_2"])].text)

\* ------------------------------------------------- the end-to-end run

\* The client of client.py against the server of server.py, fresh and with no
\* other charge point: the connection is accepted, nothing is lost and each reply
\* arrives as the server sent it.
EndToEndNext ==
    \/ MainConnect(FALSE)
    \/ MainSend
    \/ MainRecvBoot
    \/ MainRecvStatus
    \/ MainRecvStart
    \/ MainDwell
    \/ MainAcquire
    \/ MainRecvStop
    \/ MainJoin
    \/ HbSleep
    \/ HbAcquire
    \/ HbSend
    \/ HbRecv
    \/ ServerRecv(Cp)
    \/ ServerSend(Cp, "none")
    \/ ServerRecvEnd(Cp)

\* The event loops of both processes run every task that is ready, and every
\* sleep ends: a step that stays possible is taken.
EndToEnd == Init /\ [][EndToEndNext]_vars /\ WF_vars(EndToEndNext)

ReadOfStep(k) == CHOOSE i \in MainReads : StepOf(i) = k

\* what the scenario says the client has received, read off the trace
ScenarioReceived ==
    /\ \A k \in DOMAIN Steps : \E i \in MainReads : StepOf(i) = k
    /\ \A i \in MainReads : AcceptableAt(i)
    /\ ResultPayloadOf(trace[ReadOfStep(1)].entry.text)["interval"] = <<"int", 10>>
    /\ ResultPayloadOf(trace[ReadOfStep(2)].entry.text) = Val(EmptyObj)
    /\ ResultPayloadOf(trace[ReadOfStep(3)].entry.text)["transactionId"] = <<"int", 1>>
    /\ Cardinality(HbSends) = MaxCount
    /\ Cardinality(HbReads) = MaxCount
    /\ \A i \in HbReads : AcknowledgedAt(i)

\* C11: the end-to-end run, however the foreground sequence and the heartbeat
\* loop interleave, eventually ends with exit code 0, having received status
\* "Accepted" with interval 10 for BootNotification, {} for StatusNotification,
\* transactionId 1 for StartTransaction, an acknowledgement for each of exactly
\* 3 Heartbeats and idTagInfo.status "Accepted" for StopTransaction.
C11_EndToEndSucceeds == <>(main_pc = "done" /\ exit_code = <<0>> /\ ScenarioReceived)

\* the run has ended with exit code 0 after a Heartbeat on either side of the
\* StopTransaction
C11_Witness ==
    /\ main_pc = "done" /\ exit_code = <<0>> /\ ScenarioReceived
    /\ \E i \in MainSends :
           /\ StepOf(i) = 4
           /\ \E j \in HbSends : j < i
           /\ \E j \in HbSends : i < j

\* C12 as stated: when the client sends StopTransaction, its three Heartbeats
\* have all been sent and acknowledged.
C12_HeartbeatsBeforeStop ==
    \A i \in MainSends :
        StepOf(i) = 4 => Cardinality({j \in HbReads : j < i /\ AcknowledgedAt(j)}) = MaxCount

\* C12, amended: in the end-to-end run the exchanges do not overlap (each Call
\* is followed on the connection by its own response before the next Call goes
\* out), StopTransaction and every Heartbeat go out after the StartTransaction
\* response, in no fixed order between them, and the three Heartbeats are all
\* sent and acknowledged before the run reports success.
C12_HeartbeatsBeforeSuccess ==
    /\ \A i \in SendsOf(trace) :
           i < Len(trace) =>
               /\ trace[i + 1].ev = "read"
               /\ trace[i + 1].by = trace[i].by
               /\ trace[i + 1].call = trace[i].call
    /\ \A i \in HbSends \cup {j \in MainSends : StepOf(j) = 4} :
           \E j \in MainReads : j < i /\ StepOf(j) = 3
    /\ exit_code = <<0>> =>
           Cardinality({j \in HbReads : AcknowledgedAt(j)}) = MaxCount

\* StopTransaction has been answered and no Heartbeat has been sent yet
C12_Witness ==
    /\ \E i \in MainReads : StepOf(i) = 4
    /\ HbSends = {}

\* ------------------------------------- the server and one probing charge point

\* What the probing charge point may send: every supported action with a payload
\* the server accepts (a StopTransaction also with JSON true as its
\* transactionId), an action the server does not support, payloads with a
\* field out of range, of the wrong type or missing, a frame that is not a Call,
\* and a text that is not JSON.
ProbeMessages ==
    {CallText("boot", "BootNotification", _boot_notification_payload),
     CallText("beat", "Heartbeat", EmptyObj),
     CallText("status", "StatusNotification", StatusPayload(0)),
     CallText("status2", "StatusNotification", StatusPayload(2)),
     CallText("start", "StartTransaction", StartPayload(1, "TEST", 0)),
     CallText("start_no_tag", "StartTransaction", StartPayload(1, "", 0)),
     CallText("stop", "StopTransaction", StopPayload(JInt(1))),
     CallText("stop_true", "StopTransaction", StopPayload(JBool(TRUE))),
     CallText("stop_str", "StopTransaction", StopPayload(JStr("1"))),
     CallText("stop_empty", "StopTransaction", EmptyObj),
     CallText("reset", "Reset", EmptyObj),
     json_dumps(make_call_result(JStr("result"), EmptyObj)),
     RawText("{")}

ProbeNext ==
    \/ AnyConnect(Cp)
    \/ \E message \in ProbeMessages : AnySend(Cp, message)
    \/ AnyRecv(Cp)
    \/ AnyClose(Cp)
    \/ ServerRecv(Cp)
    \/ ServerRecvEnd(Cp)
    \/ ServerSend(Cp, "none")
    \/ ServerErrSend(Cp)
    \/ ServerErrClose(Cp)

ProbeSpec == Init /\ [][ProbeNext]_vars

\* ------------------------------------------------- properties of the replies

\* A text is a well-formed Call, read off the text itself.
WireCall(message) ==
    /\ message[1] = "json"
    /\ Tag(message[2]) = "list"
    /\ Len(Val(message[2])) = 4
    /\ Val(message[2])[1] = <<"int", 2>>
    /\ Tag(Val(message[2])[2]) = "str" /\ Val(Val(message[2])[2]) # ""
    /\ Tag(Val(message[2])[3]) = "str" /\ Val(Val(message[2])[3]) # ""
    /\ Tag(Val(message[2])[4]) = "obj"

WireUid(message) == Val(message[2])[2]
WireAction(message) == Val(Val(message[2])[3])
WirePayload(message) == Val(Val(message[2])[4])
Field(p, key) == IF key \in DOMAIN p THEN p[key] ELSE <<"null", 0>>
SupportedActions ==
    {"BootNotification", "Heartbeat", "StatusNotification", "StartTransaction",
     "StopTransaction"}

\* the required fields of each action, as the table of the actions gives them; an
\* int is what Python calls an int
IsIntField(x) == x[1] \in {"int", "bool"}
IsTextField(x) == x[1] = "str" /\ x[2] # ""
IsConnectorField(x) ==
    \/ x \in {<<"int", 0>>, <<"int", 1>>}
    \/ x[1] = "bool"

FieldsValid(action, p) ==
    IF action = "StatusNotification"
    THEN /\ IsConnectorField(Field(p, "connectorId"))
         /\ Field(p, "status") = <<"str", "Available">>
         /\ Field(p, "errorCode") = <<"str", "NoError">>
    ELSE IF action = "StartTransaction"
    THEN /\ IsConnectorField(Field(p, "connectorId"))
         /\ IsTextField(Field(p, "idTag"))
         /\ IsIntField(Field(p, "meterStart"))
         /\ IsTextField(Field(p, "timestamp"))
    ELSE IF action = "StopTransaction"
    THEN /\ IsIntField(Field(p, "transactionId"))
         /\ IsIntField(Field(p, "meterStop"))
         /\ IsTextField(Field(p, "timestamp"))
    ELSE TRUE

UnsupportedCall(message) == WireCall(message) /\ WireAction(message) \notin SupportedActions
ValidCall(message) ==
    /\ WireCall(message)
    /\ WireAction(message) \in SupportedActions
    /\ FieldsValid(WireAction(message), WirePayload(message))
InvalidMessage(message) ==
    \/ ~WireCall(message)
    \/ /\ WireAction(message) \in SupportedActions
       /\ ~FieldsValid(WireAction(message), WirePayload(message))

\* a text is a frame of the given type and length that carries the uid
IsFrame(text, type, len, uid) ==
    /\ text[1] = "json"
    /\ Tag(text[2]) = "list"
    /\ Len(Val(text[2])) = len
    /\ Val(text[2])[1] = <<"int", type>>
    /\ Val(text[2])[2] = uid

\* connection c takes a message off the connection and decides its reply
Handles(c) == srv_pc[c] = "recv" /\ srv_pc'[c] \in {"send", "err_send"}
\* connection c sends the CallResult or CallError it decided, on an open connection
SendsReply(c) == srv_pc[c] = "send" /\ srv_pc'[c] # "send" /\ conn[c] = "open"

C13_UnsupportedStep(c) ==
    UnsupportedCall(Head(c2s[c])) =>
        /\ srv_pc'[c] = "send"
        /\ IsFrame(srv_out'[c].text, 4, 5, WireUid(Head(c2s[c])))
        /\ Val(srv_out'[c].text[2])[3] = <<"str", "NotSupported">>
        /\ Tag(Val(srv_out'[c].text[2])[4]) = "str"
        /\ Val(srv_out'[c].text[2])[5] = <<"obj", <<>>>>

C13_ValidStep(c) ==
    ValidCall(Head(c2s[c])) =>
        /\ srv_pc'[c] = "send"
        /\ IsFrame(srv_out'[c].text, 3, 3, WireUid(Head(c2s[c])))

C13_SendStep(c) ==
    /\ srv_pc'[c] = "recv"
    /\ conn'[c] = "open"
    /\ s2c'[c] # <<>>
    /\ s2c'[c][Len(s2c'[c])].text = srv_out[c].text

\* C13: a well-formed Call with an action outside the five supported ones is
\* answered with [4, uid, "NotSupported", description, {}] under the uid of the
\* Call; sending that frame leaves the connection open and the server reading,
\* and every valid Call it reads, after such a Call as before it, is answered
\* with a CallResult under its own uid.
C13_NotSupportedKeepsServing ==
    [][\A c \in Conns :
           /\ Handles(c) => C13_UnsupportedStep(c) /\ C13_ValidStep(c)
           /\ SendsReply(c) => C13_SendStep(c)]_vars

\* the charge point has a NotSupported CallError and, behind it, the CallResult
\* of the Heartbeat it sent next
C13_Witness ==
    /\ conn[Cp] = "open"
    /\ Len(s2c[Cp]) = 2
    /\ IsFrame(s2c[Cp][1].text, 4, 5, <<"str", "reset">>)
    /\ IsFrame(s2c[Cp][2].text, 3, 3, <<"str", "beat">>)

\* the reasons the server gives when it refuses a message
ErrorReasons ==
    {"invalid JSON (Expecting value)", "frame must be a JSON list",
     "CALL frame must have length 4", "MessageTypeId must be 2 (CALL)",
     "CALL uid must be a non-empty string", "CALL action must be a non-empty string",
     "CALL payload must be an object", "connectorId must be 0 or 1",
     "status must be Available", "errorCode must be NoError",
     "idTag must be a non-empty string", "meterStart must be an integer",
     "timestamp must be a string", "transactionId must be an integer",
     "meterStop must be an integer"}

\* a text that is "ERROR: " followed by a reason, and so no JSON frame
IsErrorText(text) == \E reason \in ErrorReasons : text = <<"raw", "ERROR: " \o reason>>

\* the message is refused: an error text is decided, nothing is sent yet
C14_RefuseStep(c) ==
    InvalidMessage(Head(c2s[c])) =>
        /\ srv_pc'[c] = "err_send"
        /\ IsErrorText(srv_out'[c].text)
        /\ s2c'[c] = s2c[c]

\* the error text is the one text sent, and the close follows
C14_ErrorSendStep(c) ==
    (srv_pc[c] = "err_send" /\ srv_pc'[c] # "err_send" /\ conn[c] = "open") =>
        /\ srv_pc'[c] = "err_close"
        /\ Len(s2c'[c]) = Len(s2c[c]) + 1
        /\ s2c'[c][Len(s2c'[c])].text = srv_out[c].text
        /\ IsErrorText(srv_out[c].text)
        /\ conn'[c] = "open"

\* the connection is closed with code 1002 and nothing more is sent
C14_ErrorCloseStep(c) ==
    (srv_pc[c] = "err_close" /\ srv_pc'[c] # "err_close") =>
        /\ srv_pc'[c] = "done"
        /\ conn'[c] = "closed"
        /\ conn[c] = "open" => close_code'[c] = 1002
        /\ Len(s2c'[c]) <= Len(s2c[c])

\* after the close the connection handles no message and sends nothing
C14_DoneStep(c) ==
    srv_pc[c] = "done" =>
        /\ srv_pc'[c] = "done"
        /\ Len(c2s'[c]) >= Len(c2s[c])
        /\ Len(s2c'[c]) <= Len(s2c[c])
        /\ srv_out'[c] = srv_out[c]

\* C14: a message that is not JSON, is not a valid Call, or is a
\* StatusNotification, StartTransaction or StopTransaction whose payload has a
\* required field missing or invalid, makes the server send one text that
\* starts with "ERROR: " and then close the connection with code 1002; it sends
\* no CallResult and no CallError for the message and handles no further
\* message of the connection.
C14_ErrorClose ==
    [][\A c \in Conns :
           /\ Handles(c) => C14_RefuseStep(c)
           /\ C14_ErrorSendStep(c)
           /\ C14_ErrorCloseStep(c)
           /\ C14_DoneStep(c)]_vars

\* the server has closed with 1002 after its error text, and the Heartbeat the
\* charge point had sent behind the refused StopTransaction stays unread
C14_Witness ==
    /\ conn[Cp] = "closed" /\ close_code[Cp] = 1002
    /\ srv_pc[Cp] = "done"
    /\ c2s[Cp] = <<CallText("beat", "Heartbeat", EmptyObj)>>
    /\ Len(s2c[Cp]) = 1
    /\ s2c[Cp][1].text = <<"raw", "ERROR: transactionId must be an integer">>

\* one entry more, under the counter's value, and the counter one more
C15_StartEffect ==
    /\ next_transaction_id' = next_transaction_id + 1
    /\ next_transaction_id \notin DOMAIN active_transactions
    /\ DOMAIN active_transactions' = DOMAIN active_transactions \cup {next_transaction_id}
    /\ \A t \in DOMAIN active_transactions : active_transactions'[t] = active_transactions[t]

\* at most one entry less and the counter as it was
C15_StopEffect ==
    /\ next_transaction_id' = next_transaction_id
    /\ DOMAIN active_transactions' \subseteq DOMAIN active_transactions
    /\ Cardinality(DOMAIN active_transactions \ DOMAIN active_transactions') <= 1
    /\ \A t \in DOMAIN active_transactions' : active_transactions'[t] = active_transactions[t]

\* C15: the counter and the registry change only in a step that handles a valid
\* StartTransaction (one insert, counter + 1) or a valid StopTransaction (at
\* most one removal, counter unchanged); BootNotification, Heartbeat,
\* StatusNotification accepted or refused, an unsupported action and every
\* message that ends in an error-close leave both as they were.
C15_OnlyStartAndStopWrite ==
    [][(next_transaction_id' # next_transaction_id
            \/ active_transactions' # active_transactions) =>
           \E c \in Conns :
               /\ Handles(c)
               /\ ValidCall(Head(c2s[c]))
               /\ \/ WireAction(Head(c2s[c])) = "StartTransaction" /\ C15_StartEffect
                  \/ WireAction(Head(c2s[c])) = "StopTransaction" /\ C15_StopEffect]_vars

\* a StatusNotification for connector 2 has been refused and the connection
\* closed while the registry holds transaction 1 and the counter is 2
C15_Witness ==
    /\ close_code[Cp] = 1002
    /\ s2c[Cp] # <<>>
    /\ s2c[Cp][Len(s2c[Cp])].re = <<"str", "status2">>
    /\ DOMAIN active_transactions = {1}
    /\ next_transaction_id = 2

\* a text is a CallResult or a CallError frame
IsResultOrError(text) ==
    /\ text[1] = "json"
    /\ Tag(text[2]) = "list"
    /\ Len(Val(text[2])) >= 2
    /\ Val(text[2])[1] \in {<<"int", 3>>, <<"int", 4>>}

\* the frame decided in this step carries the uid of the Call read in this step
C16_DecideStep(c) ==
    IsResultOrError(srv_out'[c].text) =>
        /\ WireCall(Head(c2s[c]))
        /\ Val(srv_out'[c].text[2])[2] = WireUid(Head(c2s[c]))

\* the frame sent is the frame decided for the Call read last
C16_SendStep(c) ==
    /\ s2c'[c] # <<>>
    /\ s2c'[c][Len(s2c'[c])].text = srv_out[c].text
    /\ s2c'[c][Len(s2c'[c])].re = srv_out[c].re

\* every frame the server has sent and the charge point has not read yet
C16_SentFramesEchoUid ==
    \A c \in Conns : \A i \in DOMAIN s2c[c] :
        IsResultOrError(s2c[c][i].text) => Val(s2c[c][i].text[2])[2] = s2c[c][i].re

\* C16: every CallResult and every CallError the server sends has as its
\* second element the uid of the Call it answers, which is the Call read last
\* from the same connection.
C16_RepliesEchoUid ==
    /\ []C16_SentFramesEchoUid
    /\ [][\A c \in Conns :
              /\ Handles(c) => C16_DecideStep(c)
              /\ SendsReply(c) => C16_SendStep(c)]_vars

\* the charge point has the CallResult of its StartTransaction and, behind it,
\* the CallError of its Reset, each under its own uid
C16_Witness ==
    /\ Len(s2c[Cp]) = 2
    /\ IsFrame(s2c[Cp][1].text, 3, 3, <<"str", "start">>)
    /\ IsFrame(s2c[Cp][2].text, 4, 5, <<"str", "reset">>)

\* ------------------------------------------------- the functions of common.py

\* the longest list a function is applied to
MaxFrameLen == 5

\* the values a list is made of: the two message types, an empty and two
\* non-empty strings, an object and null
Elems == {JInt(2), JInt(3), JStr(""), JStr("u"), JStr("Reset"), EmptyObj, None}

\* the values a function is applied to: values that are no lists, and every
\* list of up to MaxFrameLen of them
Frames == Elems \cup {JList(q) : q \in UNION {[1..n -> Elems] : n \in 0..MaxFrameLen}}

PureInit ==
    /\ ProgramInit
    /\ fn_in \in Frames
    /\ fn_out = <<>>

Applied(fn, ret) ==
    /\ fn_out = <<>>
    /\ fn_out' = <<[fn |-> fn, ret |-> ret]>>
    /\ UNCHANGED <<fn_in, netVars, srvVars, clientVars, sent_count>>

\* validate_call(msg)
ApplyValidateCall == Applied("validate_call", validate_call(fn_in))

\* validate_call(make_call(uid, action, payload)) for a str, a str and a dict
ApplyMakeCall ==
    /\ IsList(fn_in) /\ Len(Val(fn_in)) = 3
    /\ IsStr(Val(fn_in)[1]) /\ IsStr(Val(fn_in)[2]) /\ IsDict(Val(fn_in)[3])
    /\ Applied("make_call",
               validate_call(make_call(Val(fn_in)[1], Val(Val(fn_in)[2]), Val(fn_in)[3])))

\* parse_call_result_payload(msg)
ApplyParseCallResultPayload ==
    Applied("parse_call_result_payload", parse_call_result_payload(fn_in))

\* is_call_result(msg)
ApplyIsCallResult == Applied("is_call_result", is_call_result(fn_in))

PureNext ==
    \/ ApplyValidateCall
    \/ ApplyMakeCall
    \/ ApplyParseCallResultPayload
    \/ ApplyIsCallResult

PureSpec == PureInit /\ [][PureNext]_vars

\* ------------------------------------------------- properties of the functions

HasApplied(fn) == fn_out # <<>> /\ fn_out[1].fn = fn

\* the element at a position of a value, where it is a list that long
ElemAt(msg, i) ==
    IF msg[1] = "list" /\ i <= Len(msg[2]) THEN msg[2][i] ELSE <<"absent", 0>>

CheckReasons ==
    <<"frame must be a JSON list", "CALL frame must have length 4",
      "MessageTypeId must be 2 (CALL)", "CALL uid must be a non-empty string",
      "CALL action must be a non-empty string", "CALL payload must be an object">>

\* the checks of validate_call a value violates, by their place in the order
ViolatedChecks(msg) ==
    {k \in 1..6 :
        \/ k = 1 /\ msg[1] # "list"
        \/ k = 2 /\ (msg[1] # "list" \/ Len(msg[2]) # 4)
        \/ k = 3 /\ ElemAt(msg, 1) # <<"int", 2>>
        \/ k = 4 /\ (ElemAt(msg, 2)[1] # "str" \/ ElemAt(msg, 2)[2] = "")
        \/ k = 5 /\ (ElemAt(msg, 3)[1] # "str" \/ ElemAt(msg, 3)[2] = "")
        \/ k = 6 /\ ElemAt(msg, 4)[1] # "obj"}

FirstViolated(msg) == CHOOSE k \in ViolatedChecks(msg) : \A j \in ViolatedChecks(msg) : k <= j

\* C17: validate_call fails exactly on the values that violate one of its six
\* checks, and then with the reason of the first check violated in the order
\* list, length 4, type 2, uid, action, payload, also when several are violated.
C17_FirstViolationReported ==
    HasApplied("validate_call") =>
        IF ViolatedChecks(fn_in) = {}
        THEN fn_out[1].ret.ok
        ELSE /\ ~fn_out[1].ret.ok
             /\ fn_out[1].ret.reason = CheckReasons[FirstViolated(fn_in)]

\* a list of length 4 that violates the last four checks at once is refused for
\* its message type
C17_Witness ==
    /\ HasApplied("validate_call")
    /\ ViolatedChecks(fn_in) = {3, 4, 5, 6}
    /\ fn_out[1].ret.reason = "MessageTypeId must be 2 (CALL)"

\* C18: for a non-empty string uid, a non-empty string action and an object
\* payload, validate_call(make_call(uid, action, payload)) succeeds and gives
\* back uid, action and payload.
C18_RoundTrip ==
    (/\ HasApplied("make_call")
     /\ fn_in[2][1][2] # ""
     /\ fn_in[2][2][2] # "") =>
        /\ fn_out[1].ret.ok
        /\ fn_out[1].ret.uid = fn_in[2][1]
        /\ fn_out[1].ret.action = fn_in[2][2][2]
        /\ fn_out[1].ret.payload = fn_in[2][3]

\* the round trip of uid "u", action "Reset" and payload {}
C18_Witness ==
    /\ HasApplied("make_call")
    /\ fn_in = <<"list", <<(<<"str", "u">>), (<<"str", "Reset">>), EmptyObj>>>>
    /\ fn_out[1].ret.ok

\* a value is a list of at least three elements that starts with 3
StartsAsResult(msg) ==
    /\ msg[1] = "list"
    /\ Len(msg[2]) >= 3
    /\ msg[2][1] = <<"int", 3>>

\* C19: parse_call_result_payload gives the third element exactly when its
\* input is a list of at least three elements that starts with 3 and has an
\* object as third element, and fails on every other input; is_call_result
\* holds exactly for the lists of at least three elements that start with 3.
C19_ResultPayload ==
    /\ HasApplied("parse_call_result_payload") =>
           IF StartsAsResult(fn_in) /\ fn_in[2][3][1] = "obj"
           THEN fn_out[1].ret.ok /\ fn_out[1].ret.payload = fn_in[2][3]
           ELSE ~fn_out[1].ret.ok
    /\ HasApplied("is_call_result") => (fn_out[1].ret <=> StartsAsResult(fn_in))

\* the payload is given for a result frame of four elements, one more than a
\* CallResult has
C19_Witness ==
    /\ HasApplied("parse_call_result_payload")
    /\ StartsAsResult(fn_in)
    /\ Len(fn_in[2]) = 4
    /\ fn_out[1].ret.ok

\* ------------------------------------------------- transport failures of the client

\* the connection is refused: the run ends with exit code 1, nothing was sent
C20_RefusedStep ==
    (main_pc = "connect" /\ conn'[Cp] = "refused") =>
        /\ main_pc' = "done"
        /\ exit_code' = <<1>>
        /\ trace' = trace

\* ConnectionClosed is what a send, or a recv with nothing left to read, gives
\* on a connection that is no longer open
ClosedFor(pc) == pc \in {"send", "recv"} /\ conn[Cp] # "open" /\ (pc = "recv" => s2c[Cp] = <<>>)

\* the foreground meets ConnectionClosed: the run ends with exit code 1
C20_MainClosedStep ==
    (ClosedFor(main_pc) /\ main_pc' # main_pc) =>
        /\ main_pc' = "done"
        /\ exit_code' = <<1>>
        /\ trace' = trace

\* the heartbeat loop meets ConnectionClosed: the task ends, by the exception
\* or because the run has ended already
C20_HbClosedStep ==
    (ClosedFor(hb_pc) /\ hb_pc' # hb_pc) =>
        /\ hb_pc' \in {"failed", "cancelled"}
        /\ hb_pc' = "cancelled" => exit_code = <<1>>
        /\ trace' = trace

\* no second attempt: a connection that was refused or closed stays so, no Call
\* goes out any more, and a run that has ended stays ended with its exit code
C20_NoRetryStep ==
    /\ conn[Cp] \in {"refused", "closed"} =>
           /\ conn'[Cp] = conn[Cp]
           /\ SendsOf(trace') = SendsOf(trace)
    /\ main_pc = "done" => main_pc' = "done" /\ exit_code' = exit_code

\* C20: when the connection is refused, or is found closed by a send or a recv
\* of a foreground step or of a heartbeat iteration, the run ends with exit
\* code 1 (at once for the foreground, and with no other exit code possible
\* after the heartbeat task has failed) and makes no second attempt.
C20_TransportFailureFails ==
    /\ [](hb_pc = "failed" => exit_code \in {<<>>, <<1>>})
    /\ [](crashed => exit_code = <<1>>)
    /\ [][C20_RefusedStep /\ C20_MainClosedStep /\ C20_HbClosedStep /\ C20_NoRetryStep]_vars

\* the connection was lost under the heartbeat loop after StopTransaction had
\* been accepted, and the run has ended with exit code 1
C20_Witness ==
    /\ hb_pc = "failed"
    /\ exit_code = <<1>>
    /\ \E i \in MainReads : StepOf(i) = 4 /\ AcceptableAt(i)

\* ------------------------------------------------- the registry and the replies

\* a text is the CallResult of a StartTransaction: it carries a transactionId
IsStartResult(text) ==
    /\ text[1] = "json"
    /\ Tag(text[2]) = "list"
    /\ Len(Val(text[2])) = 3
    /\ Val(text[2])[1] = <<"int", 3>>
    /\ Tag(Val(text[2])[3]) = "obj"
    /\ "transactionId" \in DOMAIN Val(Val(text[2])[3])

StartedId(text) == Val(Val(Val(text[2])[3])["transactionId"])

\* the transaction ids named by the StopTransaction Call of the given uid
StopNamed(re) == {t \in StopIds : re = <<"str", "stop" \o ToString(t)>>}

\* a text is the CallResult of a StopTransaction Call of the given uid
IsStopResult(text, re) == IsFrame(text, 3, 3, re) /\ StopNamed(re) # {}

\* the registry holds t exactly when t was started and not since stopped
Reflects(t) == t \in DOMAIN active_transactions <=> t \in DOMAIN ledger

\* the handler mutates the registry in the step that decides the reply, in which
\* nothing has been sent yet
C21_HandleStep(c) ==
    (Handles(c) /\ ValidCall(Head(c2s[c]))
        /\ WireAction(Head(c2s[c])) \in {"StartTransaction", "StopTransaction"}) =>
        /\ srv_pc'[c] = "send"
        /\ s2c'[c] = s2c[c]
        /\ WireAction(Head(c2s[c])) = "StartTransaction" =>
               /\ IsStartResult(srv_out'[c].text)
               /\ StartedId(srv_out'[c].text) \in DOMAIN active_transactions'
               /\ StartedId(srv_out'[c].text) \notin DOMAIN active_transactions
        /\ WireAction(Head(c2s[c])) = "StopTransaction" =>
               WirePayload(Head(c2s[c]))["transactionId"][2] \notin DOMAIN active_transactions'

\* the send of the CallResult finds the mutation made and makes none
C21_SendStep(c) ==
    SendsReply(c) =>
        /\ active_transactions' = active_transactions
        /\ IsStartResult(srv_out[c].text) =>
               /\ Reflects(StartedId(srv_out[c].text))
               /\ \E i \in DOMAIN issued : issued[i] = StartedId(srv_out[c].text)
        /\ IsStopResult(srv_out[c].text, srv_out[c].re) =>
               \A t \in StopNamed(srv_out[c].re) : Reflects(t)

\* the CallResults sent and not yet read
C21_SentReflected ==
    \A c \in Conns : \A i \in DOMAIN s2c[c] :
        /\ IsStartResult(s2c[c][i].text) => Reflects(StartedId(s2c[c][i].text))
        /\ IsStopResult(s2c[c][i].text, s2c[c][i].re) =>
               \A t \in StopNamed(s2c[c][i].re) : Reflects(t)

\* a handler of another connection that runs after the send finds the transaction
\* in the registry: its StopTransaction removes it
C21_OtherHandlerStep(c) ==
    \A d \in Conns \ {c} : \A i \in DOMAIN s2c[d] :
        (/\ Handles(c)
         /\ IsStartResult(s2c[d][i].text)
         /\ StartedId(s2c[d][i].text) \in DOMAIN ledger
         /\ Head(c2s[c]) = CallText("stop" \o ToString(StartedId(s2c[d][i].text)),
                                    "StopTransaction",
                                    StopPayload(JInt(StartedId(s2c[d][i].text))))) =>
            /\ StartedId(s2c[d][i].text) \in DOMAIN active_transactions
            /\ active_transactions[StartedId(s2c[d][i].text)].chargePointId = d
            /\ StartedId(s2c[d][i].text) \notin DOMAIN active_transactions'

\* C21: the insert of an accepted StartTransaction and the removal of an
\* accepted StopTransaction are made in the step that decides the CallResult,
\* before anything is sent; the send changes nothing, and while the CallResult
\* is sent the registry holds the transaction exactly when it was started and
\* not since stopped, which the handler of another connection finds when it
\* runs after the send.
C21_MutationBeforeReply ==
    /\ []C21_SentReflected
    /\ [][\A c \in Conns :
              C21_HandleStep(c) /\ C21_SendStep(c) /\ C21_OtherHandlerStep(c)]_vars

\* the CallResult of the StartTransaction of CP_1 is sent and not yet read, and
\* the StopTransaction that CP_2 sent for its transaction has been answered and
\* has removed it
C21_Witness ==
    /\ Len(s2c["CP_1"]) = 1
    /\ IsStartResult(s2c["CP_1"][1].text)
    /\ StartedId(s2c["CP_1"][1].text) = 1
    /\ Len(s2c["CP_2"]) = 1
    /\ IsStopResult(s2c["CP_2"][1].text, <<"str", "stop1">>)
    /\ active_transactions = [t \in {} |-> 0]

\* ------------------------------------------------- the session state of the client

\* the transactionId of the CallResult read at trace[i]
TransactionIdAt(i) == ResultPayloadOf(trace[i].entry.text)["transactionId"]

\* the acceptable StartTransaction responses the foreground has read
AcceptedStarts == {i \in MainReads : StepOf(i) = 3 /\ AcceptableAt(i)}

\* C22: the client's status is BOOTING from the start and is AVAILABLE only
\* when a BootNotification CallResult with status "Accepted" has been read; the
\* session exists only when a StartTransaction CallResult with an integer
\* transactionId and idTagInfo.status "Accepted" has been read, it holds that
\* transactionId, and every StopTransaction sent names it.
C22_SessionState ==
    /\ state \in {BOOTING, AVAILABLE}
    /\ MainReads = {} => state = BOOTING
    /\ state = AVAILABLE => \E i \in MainReads : StepOf(i) = 1 /\ AcceptableAt(i)
    /\ session # <<>> =>
           /\ AcceptedStarts # {}
           /\ \A i \in AcceptedStarts : session[1].transaction_id = TransactionIdAt(i)
    /\ \A j \in MainSends :
           StepOf(j) = 4 =>
               /\ \E i \in AcceptedStarts : i < j
               /\ \A i \in AcceptedStarts :
                      Val(Val(trace[j].call)[4])["transactionId"] = TransactionIdAt(i)

\* StopTransaction is out, naming the transactionId the peer gave, JSON true
C22_Witness ==
    /\ state = AVAILABLE
    /\ session # <<>>
    /\ \E j \in MainSends :
           /\ StepOf(j) = 4
           /\ Val(Val(trace[j].call)[4])["transactionId"] = <<"bool", TRUE>>

\* ------------------------------------------------- the lock around the exchanges

\* C23 as stated: every Call of the client, the foreground's four and every
\* Heartbeat, is sent and its response received while the issuing activity
\* holds the lock.
C23_EveryCallUnderLock ==
    /\ main_pc \in {"send", "recv"} => ws_lock = "main"
    /\ hb_pc \in {"send", "recv"} => ws_lock = "hb"

\* the event a step adds to the trace
LastEvent(tr) == tr[Len(tr)]

\* a send or a read of StopTransaction or of a Heartbeat is made by the holder
\* of the lock; one of the three Calls before them is made while there is no
\* heartbeat loop
C23_ExchangeStep ==
    trace' # trace =>
        IF LastEvent(trace').by = "hb"
        THEN ws_lock = "hb"
        ELSE IF ActionOf(LastEvent(trace').call) = "StopTransaction"
        THEN ws_lock = "main"
        ELSE ws_lock = "free" /\ hb_pc = "none"

\* C23, amended: StopTransaction and every Heartbeat, the Calls issued once the
\* heartbeat loop exists, are sent and their responses received while the
\* issuing activity holds the lock; BootNotification, StatusNotification and
\* StartTransaction are sent and their responses received without the lock,
\* which is created after them, while the foreground sequence is the only
\* activity.
C23_SharedCallsUnderLock ==
    /\ []((main_pc \in {"send", "recv"} /\ main_step = 4) => ws_lock = "main")
    /\ [](hb_pc \in {"send", "recv"} => ws_lock = "hb")
    /\ []((main_pc \in {"send", "recv"} /\ main_step < 4) =>
             (ws_lock = "free" /\ hb_pc = "none"))
    /\ [][C23_ExchangeStep]_vars

\* the heartbeat loop holds the lock and awaits its response while the
\* foreground waits for the lock with its StopTransaction
C23_Witness ==
    /\ hb_pc = "recv" /\ ws_lock = "hb"
    /\ main_pc = "lock"
    /\ Cardinality(MainReads) = 3

\* ------------------------------------------------- StopTransaction of an unknown id

\* the message is a valid StopTransaction Call
ValidStop(message) == ValidCall(message) /\ WireAction(message) = "StopTransaction"

\* the transaction a valid StopTransaction names: JSON true names 1, false 0
NamedId(message) ==
    IF WirePayload(message)["transactionId"][1] = "bool"
    THEN (IF WirePayload(message)["transactionId"][2] THEN 1 ELSE 0)
    ELSE WirePayload(message)["transactionId"][2]

\* the id was never assigned, or its transaction has been stopped already
NeverAssigned(t) == \A i \in DOMAIN issued : issued[i] # t
AlreadyStopped(t) == (\E i \in DOMAIN issued : issued[i] = t) /\ t \notin DOMAIN ledger

\* the reply decided is [3, uid, {"idTagInfo": {"status": "Accepted"}}]
StopAcceptedReply(c) ==
    /\ srv_pc'[c] = "send"
    /\ IsFrame(srv_out'[c].text, 3, 3, WireUid(Head(c2s[c])))
    /\ Val(srv_out'[c].text[2])[3] =
           <<"obj", [idTagInfo |-> <<"obj", [status |-> <<"str", "Accepted">>]>>]>>

C24_UnknownStopStep(c) ==
    (/\ Handles(c)
     /\ ValidStop(Head(c2s[c]))
     /\ \/ NamedId(Head(c2s[c])) \notin DOMAIN active_transactions
        \/ NeverAssigned(NamedId(Head(c2s[c])))
        \/ AlreadyStopped(NamedId(Head(c2s[c])))) =>
        /\ StopAcceptedReply(c)
        /\ active_transactions' = active_transactions
        /\ next_transaction_id' = next_transaction_id

\* after a valid StopTransaction the id is stopped or was never assigned, which
\* is where a second handling of the same Call starts from
C24_StopStep(c) ==
    (Handles(c) /\ ValidStop(Head(c2s[c]))) =>
        /\ StopAcceptedReply(c)
        /\ NamedId(Head(c2s[c])) \notin DOMAIN active_transactions'
        /\ NamedId(Head(c2s[c])) \notin DOMAIN ledger'
        /\ \A t \in DOMAIN active_transactions :
               t # NamedId(Head(c2s[c])) =>
                   t \in DOMAIN active_transactions'
                       /\ active_transactions'[t] = active_transactions[t]

\* C24: a valid StopTransaction that names an id the registry does not hold,
\* because it was never assigned or because its transaction is stopped already,
\* is answered with idTagInfo.status "Accepted" and leaves the registry as it
\* was; every valid StopTransaction leaves its id out of the registry, so that
\* handling the same Call again changes nothing more.
C24_StopOfUnknownId ==
    [][\A c \in Conns : C24_UnknownStopStep(c) /\ C24_StopStep(c)]_vars

\* the same StopTransaction has been answered twice after the StartTransaction
\* of its transaction, and the registry is empty
C24_Witness ==
    /\ issued = <<1>>
    /\ Len(s2c[Cp]) = 3
    /\ IsFrame(s2c[Cp][2].text, 3, 3, <<"str", "stop">>)
    /\ IsFrame(s2c[Cp][3].text, 3, 3, <<"str", "stop">>)
    /\ conn[Cp] = "open"
    /\ active_transactions = [t \in {} |-> 0]

\* ------------------------------------------------- a peer that stops answering

\* The peer has read a Call and never answers it: it keeps the reply to itself
\* and keeps the connection open. From here on the peer does nothing.
PeerStall(c) ==
    /\ srv_pc[c] = "send"
    /\ conn[c] = "open"
    /\ srv_pc' = [srv_pc EXCEPT ![c] = "stalled"]
    /\ UNCHANGED <<netVars, next_transaction_id, active_transactions, srv_out, issued,
                   ledger, clientVars, sent_count, fnVars>>

\* The client of client.py against a peer that answers as the server of
\* server.py does until, at some Call, it stops answering.
StallNext ==
    \/ EndToEndNext
    \/ PeerStall(Cp)

\* The client's event loop runs every task that is ready and every sleep ends;
\* the peer answers unless it has stopped answering.
StallSpec == Init /\ [][StallNext]_vars /\ WF_vars(EndToEndNext)

Stalled == srv_pc[Cp] = "stalled"

\* the activity whose Call is not answered
Unanswered == LastEvent(trace).by

\* the run has not ended, the sender of the unanswered Call awaits the response
\* and there is nothing for it to read
C25_Waiting ==
    Stalled =>
        /\ conn[Cp] = "open"
        /\ main_pc # "done" /\ exit_code = <<>>
        /\ trace # <<>> /\ LastEvent(trace).ev = "send"
        /\ s2c[Cp] = <<>>
        /\ Unanswered = "main" => main_pc = "recv"
        /\ Unanswered = "hb" => hb_pc = "recv" /\ ws_lock = "hb"
        /\ (Unanswered = "main" /\ main_step = 4) => ws_lock = "main"

\* nothing ends the wait: no Call is sent, nothing is read, the lock stays with
\* its holder and the run does not end
C25_StallStep ==
    Stalled =>
        /\ srv_pc'[Cp] = "stalled"
        /\ trace' = trace
        /\ c2s' = c2s
        /\ ws_lock' = ws_lock
        /\ exit_code' = <<>>
        /\ main_pc = "recv" => main_pc' = "recv"
        /\ hb_pc = "recv" => hb_pc' = "recv"

\* C25: once the peer has stopped answering a Call and keeps the connection
\* open, the run never ends: the activity that sent the Call awaits the
\* response forever, no Call is sent any more, and when the waiting activity
\* holds the lock the other activity, as soon as it has a Call to send, waits
\* for the lock forever.
C25_UnansweredCallStalls ==
    /\ []C25_Waiting
    /\ [][C25_StallStep]_vars
    /\ (Stalled /\ ws_lock = "hb" /\ main_pc \in {"dwell", "lock"}) ~> [](main_pc = "lock")
    /\ (Stalled /\ ws_lock = "main" /\ hb_pc \in {"sleep", "lock"}) ~> [](hb_pc = "lock")

\* the first Heartbeat is never answered: the heartbeat loop holds the lock and
\* the foreground waits for it with its StopTransaction
C25_Witness ==
    /\ Stalled
    /\ hb_pc = "recv" /\ ws_lock = "hb" /\ hb_idx = 0
    /\ main_pc = "lock"

\* ------------------------------------------------- the bound of the heartbeat loop

\* C26: the heartbeat loop sends at most 3 Heartbeat Calls in a run; when it has
\* ended by returning and each of its Heartbeats was answered with a CallResult
\* under its uid, it has made exactly 3 iterations; and when the client has
\* reported success the loop has ended.
C26_HeartbeatLoopBounded ==
    /\ Cardinality(HbSends) <= 3
    /\ hb_idx <= 3
    /\ Cardinality(HbReads) = hb_idx
    /\ (hb_pc = "done" /\ \A i \in HbReads : AcknowledgedAt(i)) =>
           /\ hb_idx = 3
           /\ Cardinality(HbSends) = 3
    /\ hb_pc \in {"sleep", "lock", "send", "recv"} =>
           /\ hb_idx < 3
           /\ \A i \in HbReads : AcknowledgedAt(i)
    /\ exit_code = <<0>> => hb_pc = "done"

\* the loop has ended after its third acknowledged Heartbeat while the
\* foreground has not yet sent StopTransaction
C26_Witness ==
    /\ hb_pc = "done"
    /\ Cardinality(HbSends) = 3
    /\ \A i \in HbReads : AcknowledgedAt(i)
    /\ main_pc = "dwell"
    /\ exit_code = <<>>

\* ------------------------------------------------- the keys of the registry

\* C27: in every state of the server each key of the registry is an integer t
\* with 1 <= t < the next transaction id to be assigned, and the registry has
\* at most as many entries as StartTransaction Calls have been accepted.
C27_RegistryKeysBelowCounter ==
    /\ \A t \in DOMAIN active_transactions :
           /\ t \in Int
           /\ 1 <= t
           /\ t < next_transaction_id
    /\ Cardinality(DOMAIN active_transactions) <= Len(issued)

\* two StartTransactions were accepted and the first transaction has been
\* stopped: one entry, of CP_2, under key 2 below the counter 3
C27_Witness ==
    /\ DOMAIN active_transactions = {2}
    /\ active_transactions[2].chargePointId = "CP_2"
    /\ next_transaction_id = 3
    /\ Len(issued) = 2

\* ------------------------------------------------- no deadlock on the lock

\* the activities between acquiring the lock and reading the response
InExchange == {a \in {"main", "hb"} :
                  \/ a = "main" /\ main_step = 4 /\ main_pc \in {"send", "recv"}
                  \/ a = "hb" /\ hb_pc \in {"send", "recv"}}

\* at most one activity is in its exchange, and the lock is held exactly by it
C28_LockHeldInExchangeOnly ==
    /\ Cardinality(InExchange) <= 1
    /\ ws_lock = "main" <=> "main" \in InExchange
    /\ ws_lock = "hb" <=> "hb" \in InExchange
    /\ ws_lock \in {"free", "main", "hb"}

\* the lock is taken only when free, by an activity that waits for it, and is
\* given back by the step that reads the response
C28_LockStep ==
    /\ (ws_lock' # ws_lock /\ ws_lock' = "main") => (ws_lock = "free" /\ main_pc = "lock")
    /\ (ws_lock' # ws_lock /\ ws_lock' = "hb") => (ws_lock = "free" /\ hb_pc = "lock")
    /\ (ws_lock' # ws_lock /\ ws_lock' = "free") =>
           /\ trace' # trace
           /\ LastEvent(trace').ev = "read"
           /\ LastEvent(trace').by = ws_lock

\* C28: the lock is held by at most one of the two activities at a time, and
\* only from its acquisition before a send to the read of the response; with
\* the server answering every Call, each activity that waits for the lock
\* eventually holds it.
C28_NoDeadlockOnLock ==
    /\ []C28_LockHeldInExchangeOnly
    /\ [][C28_LockStep]_vars
    /\ (main_pc = "lock") ~> (ws_lock = "main")
    /\ (hb_pc = "lock") ~> (ws_lock = "hb")

\* both activities wait for the lock at once, and it is free
C28_Witness ==
    /\ main_pc = "lock"
    /\ hb_pc = "lock"
    /\ ws_lock = "free"

\* ------------------------------------------------- transactions and connections

\* the transactions the step takes out of the registry
Removed == DOMAIN active_transactions \ DOMAIN active_transactions'

\* a valid StopTransaction removes the entry of its id, whoever started it
C29_StopStep(c) ==
    (Handles(c) /\ ValidStop(Head(c2s[c]))) =>
        /\ NamedId(Head(c2s[c])) \notin DOMAIN active_transactions'
        /\ Removed = DOMAIN active_transactions \cap {NamedId(Head(c2s[c]))}

\* an entry leaves the registry only in a step that handles a valid
\* StopTransaction with its id; a close and the end of a handler remove nothing
C29_RemovalStep ==
    /\ Removed # {} =>
           \E c \in Conns :
               /\ Handles(c)
               /\ ValidStop(Head(c2s[c]))
               /\ Removed = {NamedId(Head(c2s[c]))}
    /\ (conn' # conn \/ \E c \in Conns : srv_pc[c] # "done" /\ srv_pc'[c] = "done") =>
           active_transactions' = active_transactions

\* the transactions started and not since stopped are in the registry, also
\* those of connections that have ended
C29_KeptAfterClose ==
    \A t \in DOMAIN ledger :
        /\ t \in DOMAIN active_transactions
        /\ active_transactions[t].chargePointId = ledger[t].chargePointId

\* C29: a valid StopTransaction removes the entry of its id whichever
\* connection started the transaction; no entry is removed by anything else,
\* in particular not when a connection closes or its handler ends, so that a
\* transaction stays in the registry after its connection has ended until a
\* StopTransaction with its id is handled.
C29_StopFromAnyConnection ==
    /\ []C29_KeptAfterClose
    /\ [][C29_RemovalStep /\ \A c \in Conns : C29_StopStep(c)]_vars

\* the connection of CP_1 has ended and its transaction is still in the
\* registry when CP_2 sends the StopTransaction for it
C29_Witness ==
    /\ conn["CP_1"] = "closed" /\ srv_pc["CP_1"] = "done"
    /\ DOMAIN active_transactions = {1}
    /\ active_transactions[1].chargePointId = "CP_1"
    /\ c2s["CP_2"] = <<CallText("stop1", "StopTransaction", StopPayload(JInt(1)))>>
    /\ srv_pc["CP_2"] = "recv"

=============================================================================
